---- MODULE Spec2Model ----
(***************************************************************************)
(* Job retrieval under a call budget, the postings cache, the ranking of   *)
(* postings against a resume analysis and the store of ranked results:     *)
(* backend/src/services/joobleService.ts,                                  *)
(* backend/src/services/jobRecommendationService.ts and the                *)
(* recommendations route of backend/src/routes/jobs.ts.                    *)
(*                                                                         *)
(* Every request is a process whose position (pc) moves from one await of  *)
(* the handler to the next; the Node event loop runs the code between two  *)
(* awaits without interruption, so each action is one such stretch.        *)
(***************************************************************************)
EXTENDS Integers, Sequences, FiniteSets, TLC

(***************************************************************************)
(* Bounds of the model and program constants.                              *)
(***************************************************************************)
\* private readonly API_LIMIT = 500
API_LIMIT == 500

\* LIMIT 50 of the cache query
CACHE_LIMIT == 50

\* A run starts with the budget counter at 0 or Headroom calls below the
\* limit (the state after that many earlier, completed, successful calls
\* whose bodies carried no postings).
Headroom == 1

\* At most MaxCalls searches are started in one run.
MaxCalls == 3

\* At most MaxRuns recommendation requests are started in one run.
MaxRuns == 2

\* At most MaxStores calls of storeRecommendations are started in one run.
MaxStores == 3

\* The lists handed to deduplicateJobs have at most MaxList postings.
MaxList == 4

Procs == {"p1", "p2"}

(***************************************************************************)
(* Text.  A string is a sequence of characters; String.toLowerCase and     *)
(* SQL LOWER map each upper-case character to its lower-case one.          *)
(***************************************************************************)
UpperCase ==
    <<"A", "B", "C", "D", "E", "F", "G", "H", "I", "J", "K", "L", "M",
      "N", "O", "P", "Q", "R", "S", "T", "U", "V", "W", "X", "Y", "Z">>

LowerCase ==
    <<"a", "b", "c", "d", "e", "f", "g", "h", "i", "j", "k", "l", "m",
      "n", "o", "p", "q", "r", "s", "t", "u", "v", "w", "x", "y", "z">>

LowerChar(c) ==
    IF \E i \in DOMAIN UpperCase : UpperCase[i] = c
    THEN LowerCase[CHOOSE i \in DOMAIN UpperCase : UpperCase[i] = c]
    ELSE c

ToLowerCase(s) == [i \in 1..Len(s) |-> LowerChar(s[i])]

\* String.prototype.includes
Includes(hay, needle) ==
    \E i \in 0..(Len(hay) - Len(needle)) :
        \A j \in 1..Len(needle) : hay[i + j] = needle[j]

\* SQL: text LIKE pattern, with % (any run of characters) and _ (any one
\* character) in the pattern.
RECURSIVE Like(_, _)
Like(s, pat) ==
    IF pat = <<>> THEN s = <<>>
    ELSE IF Head(pat) = "%"
         THEN \E k \in 0..Len(s) : Like(SubSeq(s, k + 1, Len(s)), Tail(pat))
         ELSE /\ s # <<>>
              /\ (Head(pat) = "_" \/ Head(pat) = Head(s))
              /\ Like(Tail(s), Tail(pat))

(***************************************************************************)
(* Postings.  The provider answers with JoobleJob records; any field may   *)
(* be absent, which is the empty string here (falsy in JavaScript).        *)
(* Times are hours since an epoch; Now is the time of the run.             *)
(***************************************************************************)
URLs == {"u1", "u2"}

Now == 100 * 24

\* a posting without an `updated` field
NoDate == 0 - 1

JobA ==
    [title |-> <<"A", "b">>, location |-> <<"a">>, snippet |-> <<"b">>,
     salary |-> "50k", source |-> "web", type |-> "Part-time", link |-> "u1",
     updated |-> Now - 48, company |-> "Acme", id |-> "j1"]

\* the same posting sighted again with other descriptive fields
JobA2 ==
    [title |-> <<"B">>, location |-> <<"a">>, snippet |-> <<"a", "b">>,
     salary |-> "", source |-> "web", type |-> "", link |-> "u1",
     updated |-> Now - 24, company |-> "", id |-> "j1"]

JobB ==
    [title |-> <<"b", "a">>, location |-> <<"B">>, snippet |-> <<"A">>,
     salary |-> "", source |-> "web", type |-> "", link |-> "u2",
     updated |-> NoDate, company |-> "", id |-> "j2"]

ProviderBatches == {<<>>, <<JobA>>, <<JobA2, JobB>>}

\* a || b for strings
OrElse(a, b) == IF a = "" THEN b ELSE a

NoRow == [absent |-> TRUE]

\* url is unique in jobs.  The table's definition is not among the sources;
\* the specification makes the url the identity of a posting.
UniqueUrl == TRUE

\* the INSERT INTO jobs of storeJobsInDatabase; copies counts the rows of
\* the table that hold the url
InsertedRow(job) ==
    [title |-> job.title,
     company |-> OrElse(job.company, "Unknown"),
     location |-> job.location,
     description |-> job.snippet,
     url |-> job.link,
     posted_date |-> IF job.updated = NoDate THEN Now ELSE job.updated,
     salary |-> OrElse(job.salary, "Not specified"),
     source |-> "jooble",
     experience_required |-> "Not specified",
     job_type |-> OrElse(job.type, "Full-time"),
     is_active |-> TRUE,
     id |-> job.link,
     updated_at |-> "default",
     copies |-> 1]

\* an UPDATE that leaves the title of the row as it was
UpdatedRow_OldTitle(row, job) ==
    [row EXCEPT !.company = OrElse(job.company, "Unknown"),
                !.location = job.location,
                !.description = job.snippet,
                !.salary = OrElse(job.salary, "Not specified"),
                !.job_type = OrElse(job.type, "Full-time"),
                !.updated_at = "CURRENT_TIMESTAMP"]

\* the UPDATE jobs ... WHERE url of storeJobsInDatabase
UpdatedRow_Redated(row, job) ==
    [row EXCEPT !.title = job.title,
                !.company = OrElse(job.company, "Unknown"),
                !.location = job.location,
                !.description = job.snippet,
                !.salary = OrElse(job.salary, "Not specified"),
                !.job_type = OrElse(job.type, "Full-time"),
                !.posted_date = IF job.updated = NoDate THEN Now ELSE job.updated,
                !.updated_at = "CURRENT_TIMESTAMP"]

UpdatedRow(row, job) ==
    [row EXCEPT !.title = job.title,
                !.company = OrElse(job.company, "Unknown"),
                !.location = job.location,
                !.description = job.snippet,
                !.salary = OrElse(job.salary, "Not specified"),
                !.job_type = OrElse(job.type, "Full-time"),
                !.updated_at = "CURRENT_TIMESTAMP"]

\* the loop of storeJobsInDatabase over a batch, on the transaction's view
RECURSIVE StoreBatch(_, _)
StoreBatch(table, batch) ==
    IF batch = <<>> THEN table
    ELSE LET job == Head(batch)
             next == IF table[job.link] = NoRow
                     THEN [table EXCEPT ![job.link] = InsertedRow(job)]
                     ELSE [table EXCEPT ![job.link] = UpdatedRow(@, job)]
         IN  StoreBatch(next, Tail(batch))

(***************************************************************************)
(* The cache query of getJobsFromDatabase.                                 *)
(***************************************************************************)
Wrap(s) == <<"%">> \o ToLowerCase(s) \o <<"%">>

RowMatches_TitleOnly(row, params) ==
    /\ row.is_active
    /\ params.keywords # <<>> =>
          Like(ToLowerCase(row.title), Wrap(params.keywords))
    /\ params.location # <<>> =>
          Like(ToLowerCase(row.location), Wrap(params.location))

\* the WHERE clause built from the parameters
RowMatches(row, params) ==
    /\ row.is_active
    /\ params.keywords # <<>> =>
          \/ Like(ToLowerCase(row.title), Wrap(params.keywords))
          \/ Like(ToLowerCase(row.description), Wrap(params.keywords))
    /\ params.location # <<>> =>
          Like(ToLowerCase(row.location), Wrap(params.location))

MatchingUrls(table, params) ==
    {u \in URLs : table[u] # NoRow /\ RowMatches(table[u], params)}

\* the row to JoobleJob transformation of the result rows
RowToJob(row) ==
    [title |-> row.title, location |-> row.location, snippet |-> row.description,
     salary |-> row.salary, source |-> row.source, type |-> row.job_type,
     link |-> row.url, updated |-> row.posted_date, company |-> row.company,
     id |-> row.id]

IsInjective(f) == \A i, j \in DOMAIN f : f[i] = f[j] => i = j

Min(a, b) == IF a < b THEN a ELSE b

\* ORDER BY posted_date DESC LIMIT 50: every sequence of matching rows,
\* newest first, that the database may answer with (rows of equal date in
\* either order), cut to the limit.
QueryRows(table, params) ==
    LET  m == MatchingUrls(table, params)
         n == Min(Cardinality(m), CACHE_LIMIT)
    IN   {s \in [1..n -> m] :
            /\ IsInjective(s)
            /\ \A i \in 1..n : \A u \in m :
                  table[u].posted_date > table[s[i]].posted_date
                      => \E k \in 1..(i - 1) : s[k] = u
            /\ \A i \in 1..(n - 1) :
                  table[s[i]].posted_date >= table[s[i + 1]].posted_date}

\* a JoobleResponse whose jobs field is an array
Response(jobs) == [jobsField |-> "array", totalCount |-> Len(jobs), jobs |-> jobs]

\* what getJobsFromDatabase returns when its query succeeds
GetJobsFromDatabase(table, params) ==
    {Response([i \in 1..Len(s) |-> RowToJob(table[s[i]])]) :
        s \in QueryRows(table, params)}

\* return { totalCount: 0, jobs: [] }
EmptyResponse == Response(<<>>)

(***************************************************************************)
(* The provider.  axios.post resolves for every 2xx answer, whatever its   *)
(* body, and rejects on a timeout, a network error and a non-2xx status.   *)
(* A 2xx body is well formed (jobs is an array of postings), has no jobs   *)
(* field ({} or text that is not JSON), or has a jobs field that is no     *)
(* array of postings.                                                      *)
(***************************************************************************)
NoJobsBody == [jobsField |-> "undefined", totalCount |-> 0, jobs |-> <<>>]

BadJobsBody == [jobsField |-> "malformed", totalCount |-> 0, jobs |-> <<>>]

ProviderBodies ==
    {Response(b) : b \in ProviderBatches} \cup {NoJobsBody, BadJobsBody}

ProviderErrors == {"timeout", "network", "status"}

SearchParams ==
    {[keywords |-> <<"b">>, location |-> <<>>, page |-> "1"],
     [keywords |-> <<"A">>, location |-> <<"a">>, page |-> "1"]}

(***************************************************************************)
(* The resume analysis handed to getRecommendedJobs.  It is JSON of the    *)
(* analysis service, probed field by field:                                *)
(*   info       extractedInfo is present                                   *)
(*   infoSkills extractedInfo.skills                                       *)
(*   sections, work, education   lengths of extractedInfo.sections,        *)
(*              .work_experience, .education                               *)
(*   contact    extractedInfo.has_contact || email || phone                *)
(*   wordCount  metrics.wordCount || extractedInfo.word_count || 0         *)
(*   skillsKind what analysis.skills is: "none", an "object" with          *)
(*              technical (its arrays, concatenated) and soft, or an       *)
(*              "array" (skillsList)                                       *)
(*   score      the ATS score, an integer here                             *)
(***************************************************************************)
\* skillCategories
SkillCategories ==
    [frameworks |->
        {<<"r", "e", "a", "c", "t">>, <<"a", "n", "g", "u", "l", "a", "r">>,
         <<"v", "u", "e">>, <<"n", "e", "x", "t", ".", "j", "s">>,
         <<"n", "e", "x", "t">>, <<"e", "x", "p", "r", "e", "s", "s">>,
         <<"e", "x", "p", "r", "e", "s", "s", ".", "j", "s">>,
         <<"n", "o", "d", "e", ".", "j", "s">>, <<"n", "o", "d", "e">>,
         <<"d", "j", "a", "n", "g", "o">>, <<"f", "l", "a", "s", "k">>,
         <<"s", "p", "r", "i", "n", "g">>,
         <<"t", "a", "i", "l", "w", "i", "n", "d">>,
         <<"s", "t", "r", "e", "a", "m", "l", "i", "t">>},
     languages |->
        {<<"p", "y", "t", "h", "o", "n">>, <<"j", "a", "v", "a">>,
         <<"j", "a", "v", "a", "s", "c", "r", "i", "p", "t">>,
         <<"t", "y", "p", "e", "s", "c", "r", "i", "p", "t">>, <<"c">>,
         <<"c", "+", "+">>, <<"r", "u", "s", "t">>, <<"g", "o">>,
         <<"r", "u", "b", "y">>, <<"p", "h", "p">>,
         <<"k", "o", "t", "l", "i", "n">>, <<"s", "w", "i", "f", "t">>},
     databases |->
        {<<"m", "y", "s", "q", "l">>,
         <<"p", "o", "s", "t", "g", "r", "e", "s", "q", "l">>,
         <<"m", "o", "n", "g", "o", "d", "b">>,
         <<"s", "u", "p", "a", "b", "a", "s", "e">>, <<"r", "e", "d", "i", "s">>,
         <<"c", "a", "s", "s", "a", "n", "d", "r", "a">>,
         <<"d", "y", "n", "a", "m", "o", "d", "b">>, <<"s", "q", "l">>},
     cloudTools |->
        {<<"a", "w", "s">>, <<"a", "z", "u", "r", "e">>, <<"g", "c", "p">>,
         <<"d", "o", "c", "k", "e", "r">>,
         <<"k", "u", "b", "e", "r", "n", "e", "t", "e", "s">>,
         <<"c", "i", "/", "c", "d">>,
         <<"g", "i", "t", "h", "u", "b", " ", "a", "c", "t", "i", "o", "n", "s">>,
         <<"g", "i", "t">>, <<"g", "i", "t", "h", "u", "b">>,
         <<"v", "e", "r", "s", "i", "o", "n", " ", "c", "o", "n", "t", "r", "o", "l">>},
     dataScience |->
        {
         <<"m", "a", "c", "h", "i", "n", "e", " ", "l", "e", "a", "r", "n", "i", "n", "g">>,
         <<"a", "i">>,
         <<"d", "a", "t", "a", " ", "s", "c", "i", "e", "n", "c", "e">>,
         <<"p", "a", "n", "d", "a", "s">>, <<"n", "u", "m", "p", "y">>,
         <<"p", "l", "o", "t", "l", "y">>,
         <<"t", "e", "n", "s", "o", "r", "f", "l", "o", "w">>,
         <<"p", "y", "t", "o", "r", "c", "h">>,
         <<"s", "c", "i", "k", "i", "t", "-", "l", "e", "a", "r", "n">>},
     highValue |->
        {<<"f", "u", "l", "l", " ", "s", "t", "a", "c", "k">>,
         <<"d", "e", "v", "o", "p", "s">>,
         <<"m", "i", "c", "r", "o", "s", "e", "r", "v", "i", "c", "e", "s">>,
         <<"a", "p", "i">>, <<"r", "e", "s", "t">>,
         <<"g", "r", "a", "p", "h", "q", "l">>},
     softSkills |->
        {<<"l", "e", "a", "d", "e", "r", "s", "h", "i", "p">>,
         <<"c", "o", "m", "m", "u", "n", "i", "c", "a", "t", "i", "o", "n">>,
         <<"t", "e", "a", "m", "w", "o", "r", "k">>,
         <<"p", "r", "o", "b", "l", "e", "m", " ", "s", "o", "l", "v", "i", "n", "g">>,
         <<"a", "n", "a", "l", "y", "t", "i", "c", "a", "l">>,
         <<"c", "o", "l", "l", "a", "b", "o", "r", "a", "t", "i", "o", "n">>,
         <<"p", "r", "o", "j", "e", "c", "t", " ", "m", "a", "n", "a", "g", "e", "m", "e", "n", "t">>,
         <<"c", "r", "i", "t", "i", "c", "a", "l", " ", "t", "h", "i", "n", "k", "i", "n", "g">>,
         <<"m", "e", "n", "t", "o", "r", "i", "n", "g">>,
         <<"p", "r", "e", "s", "e", "n", "t", "a", "t", "i", "o", "n">>,
         <<"n", "e", "g", "o", "t", "i", "a", "t", "i", "o", "n">>,
         <<"t", "i", "m", "e", " ", "m", "a", "n", "a", "g", "e", "m", "e", "n", "t">>,
         <<"e", "v", "e", "n", "t", " ", "m", "a", "n", "a", "g", "e", "m", "e", "n", "t">>,
         <<"t", "e", "a", "m", " ", "m", "a", "n", "a", "g", "e", "m", "e", "n", "t">>,
         <<"v", "e", "r", "s", "a", "t", "i", "l", "e">>,
         <<"t", "r", "u", "s", "t", " ", "b", "u", "i", "l", "d", "i", "n", "g">>,
         <<"s", "t", "r", "a", "t", "e", "g", "i", "c", " ", "p", "l", "a", "n", "n", "i", "n", "g">>},
     business |->
        {<<"m", "a", "r", "k", "e", "t", "i", "n", "g">>,
         <<"s", "a", "l", "e", "s">>,
         <<"b", "u", "s", "i", "n", "e", "s", "s", " ", "d", "e", "v", "e", "l", "o", "p", "m", "e", "n", "t">>,
         <<"s", "t", "r", "a", "t", "e", "g", "y">>,
         <<"c", "o", "n", "s", "u", "l", "t", "i", "n", "g">>,
         <<"f", "i", "n", "a", "n", "c", "e">>,
         <<"a", "c", "c", "o", "u", "n", "t", "i", "n", "g">>,
         <<"e", "c", "o", "n", "o", "m", "i", "c", "s">>,
         <<"o", "p", "e", "r", "a", "t", "i", "o", "n", "s">>,
         <<"s", "u", "p", "p", "l", "y", " ", "c", "h", "a", "i", "n">>},
     design |->
        {<<"u", "i", "/", "u", "x">>,
         <<"g", "r", "a", "p", "h", "i", "c", " ", "d", "e", "s", "i", "g", "n">>,
         <<"p", "r", "o", "d", "u", "c", "t", " ", "d", "e", "s", "i", "g", "n">>,
         <<"f", "i", "g", "m", "a">>, <<"s", "k", "e", "t", "c", "h">>,
         <<"p", "h", "o", "t", "o", "s", "h", "o", "p">>,
         <<"i", "l", "l", "u", "s", "t", "r", "a", "t", "o", "r">>,
         <<"w", "i", "r", "e", "f", "r", "a", "m", "i", "n", "g">>,
         <<"p", "r", "o", "t", "o", "t", "y", "p", "i", "n", "g">>},
     management |->
        {<<"a", "g", "i", "l", "e">>, <<"s", "c", "r", "u", "m">>,
         <<"k", "a", "n", "b", "a", "n">>, <<"p", "m", "p">>,
         <<"p", "r", "i", "n", "c", "e", "2">>,
         <<"s", "t", "a", "k", "e", "h", "o", "l", "d", "e", "r", " ", "m", "a", "n", "a", "g", "e", "m", "e", "n", "t">>,
         <<"r", "e", "s", "o", "u", "r", "c", "e", " ", "p", "l", "a", "n", "n", "i", "n", "g">>,
         <<"b", "u", "d", "g", "e", "t", " ", "m", "a", "n", "a", "g", "e", "m", "e", "n", "t">>}]

\* return 'software developer'
DefaultQuery ==
    <<"s", "o", "f", "t", "w", "a", "r", "e", " ",
      "d", "e", "v", "e", "l", "o", "p", "e", "r">>

\* [...new Set(list)]: the first occurrence of each element, in order
RECURSIVE Unique(_)
Unique(s) ==
    IF s = <<>> THEN <<>>
    ELSE LET r == Unique(SubSeq(s, 1, Len(s) - 1))
             last == s[Len(s)]
         IN  IF \E i \in 1..Len(r) : r[i] = last THEN r ELSE Append(r, last)

\* k && k.trim().length > 0
NonBlank_NotEmpty(k) == k # <<>>

NonBlank(k) == \E i \in 1..Len(k) : k[i] # " "

\* list.join(sep)
RECURSIVE Join(_, _)
Join(list, sep) ==
    IF list = <<>> THEN <<>>
    ELSE IF Len(list) = 1 THEN list[1]
    ELSE list[1] \o sep \o Join(Tail(list), sep)

\* the keywords pushed from the three places skills may be in
CollectedKeywords(analysis) ==
    (IF analysis.info THEN analysis.infoSkills ELSE <<>>)
    \o (IF analysis.skillsKind = "object" THEN analysis.technical ELSE <<>>)
    \o (IF analysis.skillsKind = "array" THEN analysis.skillsList ELSE <<>>)

\* table.some(t => skillLower.includes(t))
InCategory(skill, table) == \E t \in table : Includes(ToLowerCase(skill), t)

\* softSkills.slice(0, 5)
TopSoftSkills_Six(softSkills) == SubSeq(softSkills, 1, Min(6, Len(softSkills)))

TopSoftSkills(softSkills) == SubSeq(softSkills, 1, Min(5, Len(softSkills)))

\* finalKeywords of extractKeywordsFromResume
FinalKeywords(analysis) ==
    LET uniqueKeywords == Unique(SelectSeq(CollectedKeywords(analysis), NonBlank))
        IsFramework(k) == InCategory(k, SkillCategories.frameworks)
        IsLanguage(k) == ToLowerCase(k) \in SkillCategories.languages
        IsDatabase(k) == InCategory(k, SkillCategories.databases)
        IsCloudTool(k) == InCategory(k, SkillCategories.cloudTools)
        IsDataScience(k) == InCategory(k, SkillCategories.dataScience)
        IsHighValue(k) == InCategory(k, SkillCategories.highValue)
        IsSoftSkill(k) == InCategory(k, SkillCategories.softSkills)
        IsBusiness(k) == InCategory(k, SkillCategories.business)
        IsDesign(k) == InCategory(k, SkillCategories.design)
        IsManagement(k) == InCategory(k, SkillCategories.management)
        softSkills == SelectSeq(uniqueKeywords, IsSoftSkill)
        topSoftSkills == TopSoftSkills(softSkills)
        IsUncategorized(k) ==
            ~(\/ IsFramework(k) \/ IsLanguage(k) \/ IsDatabase(k)
              \/ IsCloudTool(k) \/ IsDataScience(k) \/ IsHighValue(k)
              \/ IsSoftSkill(k) \/ IsBusiness(k) \/ IsDesign(k)
              \/ IsManagement(k))
        selectedSkills ==
            SelectSeq(uniqueKeywords, IsHighValue)
            \o SelectSeq(uniqueKeywords, IsFramework)
            \o SelectSeq(uniqueKeywords, IsLanguage)
            \o SelectSeq(uniqueKeywords, IsCloudTool)
            \o SelectSeq(uniqueKeywords, IsDatabase)
            \o SelectSeq(uniqueKeywords, IsDataScience)
            \o SelectSeq(uniqueKeywords, IsBusiness)
            \o SelectSeq(uniqueKeywords, IsDesign)
            \o SelectSeq(uniqueKeywords, IsManagement)
            \o topSoftSkills
            \o SelectSeq(uniqueKeywords, IsUncategorized)
    IN  Unique(selectedSkills)

ExtractKeywordsFromResume(analysis) ==
    LET finalKeywords == FinalKeywords(analysis)
    IN  IF finalKeywords = <<>> THEN DefaultQuery
        ELSE Join(finalKeywords, <<" ">>)

\* the five format checks of validateResumeFormat that hold
PassedChecks(analysis) ==
    {c \in {"sufficientSkills", "hasProperSections", "hasContactInfo",
            "hasExperienceOrEducation", "reasonableLength"} :
        CASE c = "sufficientSkills" -> Len(analysis.infoSkills) >= 3
          [] c = "hasProperSections" -> analysis.sections >= 2
          [] c = "hasContactInfo" -> analysis.contact
          [] c = "hasExperienceOrEducation" ->
                 analysis.work > 0 \/ analysis.education > 0
          [] c = "reasonableLength" ->
                 analysis.wordCount >= 200 /\ analysis.wordCount <= 2000}

\* a gate that lets an analysis through with two checks
ValidateResumeFormat_TwoChecks(analysis) ==
    analysis.info /\ Cardinality(PassedChecks(analysis)) >= 2

\* a gate that lets every analysis through
ValidateResumeFormat_NoGate(analysis) == TRUE

\* validateResumeFormat(analysis).isValid
ValidateResumeFormat(analysis) ==
    analysis.info /\ Cardinality(PassedChecks(analysis)) >= 3

(***************************************************************************)
(* Ranking.  A match score is kept in tenths of a point (455 is 45.5);     *)
(* the rule-based score is computed exactly, as a fraction.                *)
(***************************************************************************)
\* .slice(0, 20)
MAX_MATCHES == 20

\* a deduplicateJobs in which a later posting replaces the one seen first
RECURSIVE DeduplicateJobs_KeepLast(_)
DeduplicateJobs_KeepLast(list) ==
    IF list = <<>> THEN <<>>
    ELSE LET r == DeduplicateJobs_KeepLast(SubSeq(list, 1, Len(list) - 1))
             last == list[Len(list)]
         IN  IF \E i \in 1..Len(r) : r[i].link = last.link
             THEN [i \in 1..Len(r) |->
                      IF r[i].link = last.link THEN last ELSE r[i]]
             ELSE Append(r, last)

\* deduplicateJobs: the first posting of each link
RECURSIVE DeduplicateJobs(_)
DeduplicateJobs(list) ==
    IF list = <<>> THEN <<>>
    ELSE LET r == DeduplicateJobs(SubSeq(list, 1, Len(list) - 1))
             last == list[Len(list)]
         IN  IF \E i \in 1..Len(r) : r[i].link = last.link THEN r
             ELSE Append(r, last)

\* `${job.title} ${job.snippet}`.toLowerCase()
JobText(job) == ToLowerCase(job.title \o <<" ">> \o job.snippet)

\* skills.filter(skill => jobText.includes(skill.toLowerCase()))
MatchedSkills(skills, job) ==
    LET Hit(s) == Includes(JobText(job), ToLowerCase(s))
    IN  SelectSeq(skills, Hit)

TechSkills(analysis) ==
    IF analysis.skillsKind = "object" THEN analysis.technical ELSE <<>>

SoftSkillsOf(analysis) ==
    IF analysis.skillsKind = "object" THEN analysis.soft ELSE <<>>

\* freshness points whose first band ends before the seventh day is over
Freshness_SevenExcluded(job) ==
    LET age == Now - job.updated
    IN  IF job.updated = NoDate THEN 4
        ELSE IF age < 7 * 24 THEN 15
        ELSE IF age <= 14 * 24 THEN 12
        ELSE IF age <= 30 * 24 THEN 8
        ELSE 4

\* the freshness points: daysOld <= 7, <= 14, <= 30, else (also for a
\* posting without a date, whose daysOld is NaN)
Freshness(job) ==
    LET age == Now - job.updated
    IN  IF job.updated = NoDate THEN 4
        ELSE IF age <= 7 * 24 THEN 15
        ELSE IF age <= 14 * 24 THEN 12
        ELSE IF age <= 30 * 24 THEN 8
        ELSE 4

\* job.salary && job.salary !== 'Not specified'
HasSalary(job) == job.salary # "" /\ job.salary # "Not specified"

\* calculateMatchScore before Math.min, as the fraction num / den
RawScore(job, analysis) ==
    LET tech == TechSkills(analysis)
        soft == SoftSkillsOf(analysis)
        td == IF tech = <<>> THEN 1 ELSE Len(tech)
        sd == IF soft = <<>> THEN 1 ELSE Len(soft)
        tm == Len(MatchedSkills(tech, job))
        sm == Len(MatchedSkills(soft, job))
        den == 5 * td * sd
    IN  [num |-> 40 * tm * 5 * sd + 15 * sm * 5 * td + analysis.score * td * sd
                 + (Freshness(job) + (IF HasSalary(job) THEN 10 ELSE 0)) * den,
         den |-> den]

\* Math.min(100, score)
CalculateMatchScore(job, analysis) ==
    LET raw == RawScore(job, analysis)
    IN  IF raw.num >= 100 * raw.den THEN [num |-> 100, den |-> 1] ELSE raw

\* Math.round(matchScore * 10) / 10, in tenths
RoundedTenths(score) == (20 * score.num + score.den) \div (2 * score.den)

\* getRecommendationReasons
RecommendationReasons(job, analysis, score) ==
    LET matched == MatchedSkills(TechSkills(analysis), job)
        age == Now - job.updated
    IN  (IF score.num >= 80 * score.den THEN <<"excellent">>
         ELSE IF score.num >= 60 * score.den THEN <<"good">>
         ELSE IF score.num >= 40 * score.den THEN <<"moderate">>
         ELSE <<>>)
        \o (IF matched # <<>>
            THEN <<<<"skills", SubSeq(matched, 1, Min(3, Len(matched)))>>>>
            ELSE <<>>)
        \o (IF job.updated # NoDate /\ age < 4 * 24 THEN <<"recent">> ELSE <<>>)

\* the rule-based branch of calculateJobMatches
RuleMatches(jobList, analysis) ==
    [i \in 1..Len(jobList) |->
        LET score == CalculateMatchScore(jobList[i], analysis)
        IN  [job |-> jobList[i],
             matchScore |-> RoundedTenths(score),
             recommendationReasons |->
                 RecommendationReasons(jobList[i], analysis, score),
             semanticSimilarity |-> "undefined"]]

\* a calculateMLMatches that attaches a short answer to the first postings
MLMatches_Prefix(jobList, oracle) ==
    IF oracle.kind = "matches"
    THEN [i \in 1..Min(Len(jobList), Len(oracle.matches)) |->
            [job |-> jobList[i],
             matchScore |-> oracle.matches[i].matchScore,
             recommendationReasons |-> oracle.matches[i].reasons,
             semanticSimilarity |-> oracle.matches[i].semanticSimilarity]]
    ELSE <<>>

\* a calculateMLMatches that attaches the answer in reverse
MLMatches_Reversed(jobList, oracle) ==
    IF oracle.kind = "matches" /\ Len(oracle.matches) >= Len(jobList)
    THEN [i \in 1..Len(jobList) |->
            [job |-> jobList[i],
             matchScore |-> oracle.matches[Len(jobList) + 1 - i].matchScore,
             recommendationReasons |-> oracle.matches[Len(jobList) + 1 - i].reasons,
             semanticSimilarity |->
                 oracle.matches[Len(jobList) + 1 - i].semanticSimilarity]]
    ELSE <<>>

\* calculateMLMatches: the oracle's answer attached to the postings by
\* position; [] when the call threw, when success or matches is missing and
\* when matches is shorter than the postings (reading a field of undefined
\* throws inside its try)
MLMatches(jobList, oracle) ==
    IF oracle.kind = "matches" /\ Len(oracle.matches) >= Len(jobList)
    THEN [i \in 1..Len(jobList) |->
            [job |-> jobList[i],
             matchScore |-> oracle.matches[i].matchScore,
             recommendationReasons |-> oracle.matches[i].reasons,
             semanticSimilarity |-> oracle.matches[i].semanticSimilarity]]
    ELSE <<>>

\* a sort that leaves the list as it is
SortByScore_Unsorted(list) == list

\* Array.prototype.sort((a, b) => b.matchScore - a.matchScore): stable
RECURSIVE SortByScore(_)
SortByScore(list) ==
    IF list = <<>> THEN <<>>
    ELSE LET rest == SortByScore(Tail(list))
             x == Head(list)
             k == Cardinality({i \in 1..Len(rest) : rest[i].matchScore > x.matchScore})
         IN  SubSeq(rest, 1, k) \o <<x>> \o SubSeq(rest, k + 1, Len(rest))

\* if (filters.days_posted), if (filters.min_match_score): the filter is set
\* and its value is not 0
Truthy(filters, name) ==
    name \in filters.given
    /\ (IF name = "days_posted" THEN filters.days_posted
        ELSE filters.min_match_score) # 0

\* a minimum that a posting has to exceed
MeetsMinimum_Strict(m, filters) ==
    Truthy(filters, "min_match_score") => m.matchScore > filters.min_match_score

\* job.matchScore >= filters.min_match_score, when that filter is applied
MeetsMinimum(m, filters) ==
    Truthy(filters, "min_match_score") => m.matchScore >= filters.min_match_score

\* jobDate >= cutoffDate, when that filter is applied; the cutoff is
\* days_posted days before now
PostedWithin(m, filters) ==
    Truthy(filters, "days_posted") =>
        (m.job.updated # NoDate
         /\ m.job.updated >= Now - 24 * filters.days_posted)

\* filterAndSortMatches
FilterAndSortMatches(matches, filters) ==
    LET MinOk(m) == MeetsMinimum(m, filters)
        DateOk(m) == PostedWithin(m, filters)
        sorted == SortByScore(SelectSeq(SelectSeq(matches, MinOk), DateOk))
    IN  SubSeq(sorted, 1, Min(MAX_MATCHES, Len(sorted)))

\* the calls of calculateMatchScore that calculateJobMatches makes: none when
\* it returns the oracle's matches, one for each posting otherwise
RuleScored(jobList, oracle) ==
    IF MLMatches(jobList, oracle) # <<>> THEN 0 ELSE Len(jobList)

\* calculateJobMatches
CalculateJobMatches(jobList, analysis, filters, oracle) ==
    LET mlMatches == MLMatches(jobList, oracle)
    IN  IF mlMatches # <<>> THEN FilterAndSortMatches(mlMatches, filters)
        ELSE FilterAndSortMatches(RuleMatches(jobList, analysis), filters)

(***************************************************************************)
(* The inputs of a recommendations request.                                *)
(***************************************************************************)
Users == {"usr1"}
Resumes == {"r1", "r2"}

(***************************************************************************)
(* The answers of the scoring service and the rows of table resumes.  An   *)
(* object is a record whose absent fields hold "none"; SQL NULL is         *)
(* NullData.                                                               *)
(***************************************************************************)
NoScore == 0 - 1
NoResult == [success |-> FALSE, score |-> NoScore, path |-> "none"]

\* the scorer's output clamps to [0, 100]
AtsScore(raw) == IF raw < 0 THEN 0 ELSE IF raw > 100 THEN 100 ELSE raw

RawScores == {0 - 12, 0, 64, 100, 117}

\* the bodies a scoring endpoint answers with: an analysis, or a refusal
\* such as a PDF without extractable text
ScorerAnswers(path) ==
    {[success |-> TRUE, score |-> AtsScore(raw), path |-> path] : raw \in RawScores}
        \cup {[success |-> FALSE, score |-> NoScore, path |-> path]}

\* a 2xx body that is not an analysis result ({} or an HTML page)
MalformedBody == [success |-> FALSE, score |-> NoScore, path |-> "malformed"]

\* { success: false, error, message } of the catch blocks
FailedResult == [success |-> FALSE, score |-> NoScore, path |-> "error"]

Levels == {"none", "mid"}

NullData == [null |-> TRUE, result |-> NoResult, targetLevel |-> "none"]

\* the object written to analysis_data
AnalysisData(result, level) ==
    [null |-> FALSE, result |-> result, targetLevel |-> level]

NoResume == [status |-> "absent", analysis_data |-> NullData, latest |-> FALSE]

NoAnalysis ==
    [info |-> FALSE, infoSkills |-> <<>>, sections |-> 0, contact |-> FALSE,
     work |-> 0, education |-> 0, wordCount |-> 0, skillsKind |-> "none",
     technical |-> <<>>, soft |-> <<>>, skillsList |-> <<>>, score |-> 0]

\* one skill only, but sections, contact, work experience and length pass
AnalysisB ==
    [info |-> TRUE, infoSkills |-> << <<"b">> >>, sections |-> 2,
     contact |-> TRUE, work |-> 1, education |-> 0, wordCount |-> 300,
     skillsKind |-> "object", technical |-> << <<"b">> >>,
     soft |-> << <<"a">>, <<"S", "Q", "L">> >>, skillsList |-> <<>>,
     score |-> 70]

\* skills as a plain list
AnalysisList ==
    [info |-> TRUE,
     infoSkills |-> << <<"A">>, <<"R", "e", "a", "c", "t">>, <<"A">> >>,
     sections |-> 1, contact |-> FALSE, work |-> 0, education |-> 1,
     wordCount |-> 250, skillsKind |-> "array", technical |-> <<>>,
     soft |-> <<>>, skillsList |-> << <<"A">> >>, score |-> 55]

\* an analysis without extractedInfo
AnalysisBare == [NoAnalysis EXCEPT !.score = 40]

\* one skill, no sections, no contact information
AnalysisOneSkill ==
    [NoAnalysis EXCEPT !.info = TRUE, !.infoSkills = << <<"b">> >>,
                       !.work = 1, !.wordCount = 300, !.score = 35]

Analyses == {AnalysisB, AnalysisList, AnalysisBare, AnalysisOneSkill}

\* the filters the route builds from the query: given names the numeric
\* filters it set (parseInt, parseFloat), whose value may be 0
NoFilters ==
    [keywords |-> <<>>, location |-> <<>>, days_posted |-> 0,
     min_match_score |-> 0, given |-> {}]

Filters ==
    {NoFilters,
     [NoFilters EXCEPT !.min_match_score = 900, !.given = {"min_match_score"}],
     [NoFilters EXCEPT !.keywords = <<"a">>, !.days_posted = 1,
                       !.given = {"days_posted"}]}

\* what the scoring oracle answers: an error (timeout, network, status), a
\* body without success or matches, or a list of matches
OracleMatch1 ==
    [matchScore |-> 455, semanticSimilarity |-> 40, reasons |-> <<"semantic">>]

OracleMatch2 ==
    [matchScore |-> 820, semanticSimilarity |-> 75, reasons |-> <<>>]

OracleAnswers ==
    {[kind |-> "error", matches |-> <<>>],
     [kind |-> "nomatches", matches |-> <<>>],
     [kind |-> "matches", matches |-> <<OracleMatch1>>],
     [kind |-> "matches", matches |-> <<OracleMatch1, OracleMatch2>>]}

(***************************************************************************)
(* State.                                                                  *)
(***************************************************************************)
VARIABLES
    apiCallCount,   \* JoobleService.apiCallCount
    liveRequests,   \* provider requests issued so far (axios.post calls)
    jobs,           \* the committed rows of table jobs, by url
    recs,           \* the committed rows of table job_recommendations
    call,           \* the position and locals of each request in flight
    resumes,        \* the committed rows of table resumes, by id
    started         \* requests started in this run

vars == <<apiCallCount, liveRequests, jobs, recs, call, resumes, started>>

NoParams == [keywords |-> <<>>, location |-> <<>>, page |-> ""]

\* the rows of job_recommendations are keyed by (user_id, resume_id, job_id)
RecKeys == Users \X Resumes \X URLs

\* what an open transaction of storeRecommendations has done so far:
\*   snapshot  the job ids of the rows its DELETE is to remove
\*   deleted   the job ids of the rows it has deleted
\*   recRows   the rows of job_recommendations it has written, by job id
\*   jobRows   the rows of jobs it has inserted or updated, by url
\*   inserted  the urls of the rows of jobs it has inserted
NoTx ==
    [snapshot |-> {}, deleted |-> {}, recRows |-> [u \in URLs |-> NoRow],
     jobRows |-> [u \in URLs |-> NoRow], inserted |-> {}]

IdleCall ==
    [pc |-> "idle", kind |-> "none", params |-> NoParams, atLimit |-> FALSE,
     live |-> FALSE, prov |-> "none", incs |-> 0, via |-> "none",
     cacheOk |-> FALSE, body |-> EmptyResponse, result |-> EmptyResponse,
     user |-> "", resume |-> "", analysis |-> NoAnalysis,
     filters |-> NoFilters, dbOk |-> FALSE, allJobs |-> <<>>,
     recommended |-> "none", recommendations |-> <<>>, status |-> 0,
     idx |-> 0, jobFound |-> FALSE, tx |-> NoTx, limit |-> 0,
     readOk |-> FALSE, rows |-> <<>>, fn |-> "none", input |-> <<>>,
     oracle |-> [kind |-> "error", matches |-> <<>>], oracleCalls |-> 0,
     ruleScored |-> 0, usage |-> 0, cache |-> [u \in URLs |-> NoRow],
     valid |-> FALSE, score |-> [num |-> 0, den |-> 1],
     level |-> "none", semCalls |-> 0, ruleCalls |-> 0, first |-> "none",
     semantic |-> "none", answer |-> NoResult,
     keywords |-> <<>>, query |-> <<>>, void |-> FALSE]

InitialCounts == {0, API_LIMIT - Headroom}

Init ==
    /\ apiCallCount \in InitialCounts
    /\ liveRequests = apiCallCount
    /\ jobs = [u \in URLs |-> NoRow]
    /\ recs = [k \in RecKeys |-> NoRow]
    /\ call = [p \in Procs |-> IdleCall]
    /\ resumes = [r \in Resumes |-> NoResume]
    /\ started = 0

(***************************************************************************)
(* searchJobs.                                                             *)
(***************************************************************************)
\* a searchJobs without its catch block: the error leaves the call
SearchJobsCatch_Rethrow(c) == [c EXCEPT !.pc = "sj_rejected", !.via = "catch"]

\* the catch block of searchJobs: whatever was thrown in its try block,
\* await getJobsFromDatabase(params)
SearchJobsCatch(c) == [c EXCEPT !.pc = "sj_cache", !.via = "catch"]

\* a getJobsFromDatabase whose catch block throws the error on
GetJobsFromDatabaseCatch_Rethrow(c) ==
    [c EXCEPT !.pc = "sj_rejected", !.cacheOk = FALSE]

\* the catch block of getJobsFromDatabase
GetJobsFromDatabaseCatch(c) ==
    [c EXCEPT !.pc = "sj_done", !.cacheOk = FALSE, !.result = EmptyResponse]

\* a limit check that lets one call too many through
LimitReached_OffByOne(count) == count > API_LIMIT

\* the limit check: which path a call takes
LimitReached(count) == count >= API_LIMIT

\* the counter after a resolved provider call
Incremented(count) == count + 1

\* searchJobs up to its first await
SearchJobsBegin(c, params) ==
    IF LimitReached(apiCallCount)
    THEN [c EXCEPT !.pc = "sj_cache", !.params = params, !.atLimit = TRUE,
                   !.via = "limit"]
    ELSE [c EXCEPT !.pc = "sj_provider", !.params = params, !.live = TRUE]

\* the provider requests issued once a searchJobs has begun
RequestsAfterBegin ==
    IF LimitReached(apiCallCount) THEN liveRequests ELSE liveRequests + 1

\* POST /jobs/search: the route calls searchJobs
SearchJobsStart(p) ==
    /\ call[p].pc = "idle"
    /\ started < MaxCalls
    /\ started' = started + 1
    /\ \E params \in SearchParams :
          call' = [call EXCEPT ![p] =
              SearchJobsBegin([IdleCall EXCEPT !.kind = "search"], params)]
    /\ liveRequests' = RequestsAfterBegin
    /\ UNCHANGED <<resumes, apiCallCount, jobs, recs>>

\* axios.post resolved: count the call, then store the postings if any
ProviderResolve(p) ==
    /\ call[p].pc = "sj_provider"
    /\ apiCallCount' = Incremented(apiCallCount)
    /\ \E body \in ProviderBodies :
          call' = [call EXCEPT ![p] =
              IF body.jobsField = "undefined"
              THEN [@ EXCEPT !.pc = "sj_done", !.prov = body.jobsField,
                             !.incs = @ + 1, !.result = body]
              ELSE [@ EXCEPT !.pc = "sj_store", !.prov = body.jobsField,
                             !.incs = @ + 1, !.body = body]]
    /\ UNCHANGED <<resumes, liveRequests, jobs, recs, started>>

\* axios.post rejected
ProviderReject(p) ==
    /\ call[p].pc = "sj_provider"
    /\ \E err \in ProviderErrors :
          call' = [call EXCEPT ![p] = SearchJobsCatch([@ EXCEPT !.prov = err])]
    /\ UNCHANGED <<resumes, apiCallCount, liveRequests, jobs, recs, started>>

\* storeJobsInDatabase committed
StoreCommit(p) ==
    /\ call[p].pc = "sj_store"
    /\ call[p].body.jobsField = "array"
    /\ jobs' = StoreBatch(jobs, call[p].body.jobs)
    /\ call' = [call EXCEPT ![p] =
          [@ EXCEPT !.pc = "sj_done", !.result = call[p].body]]
    /\ UNCHANGED <<resumes, apiCallCount, liveRequests, recs, started>>

\* storeJobsInDatabase threw (a statement failed, or jobs is no array of
\* postings): ROLLBACK, and the error reaches the catch of searchJobs
StoreFail(p) ==
    /\ call[p].pc = "sj_store"
    /\ call' = [call EXCEPT ![p] = SearchJobsCatch(@)]
    /\ UNCHANGED <<resumes, apiCallCount, liveRequests, jobs, recs, started>>

\* getJobsFromDatabase, the query succeeding
CacheQuery(p) ==
    /\ call[p].pc = "sj_cache"
    /\ \E res \in GetJobsFromDatabase(jobs, call[p].params) :
          call' = [call EXCEPT ![p] =
              [@ EXCEPT !.pc = "sj_done", !.cacheOk = TRUE, !.result = res,
                        !.cache = jobs]]
    /\ UNCHANGED <<resumes, apiCallCount, liveRequests, jobs, recs, started>>

\* getJobsFromDatabase, the query failing
CacheQueryFail(p) ==
    /\ call[p].pc = "sj_cache"
    /\ call' = [call EXCEPT ![p] = GetJobsFromDatabaseCatch(@)]
    /\ UNCHANGED <<resumes, apiCallCount, liveRequests, jobs, recs, started>>

\* searchJobs returned to POST /jobs/search: 200 with the result and the
\* calls used and remaining; 500 when reading result.jobs.length throws
SearchJobsReturn(p) ==
    /\ call[p].pc = "sj_done"
    /\ call[p].kind = "search"
    /\ call' = [call EXCEPT ![p] =
          IF call[p].result.jobsField = "undefined"
          THEN [@ EXCEPT !.pc = "rt_done", !.status = 500]
          ELSE [@ EXCEPT !.pc = "rt_done", !.status = 200,
                         !.usage = apiCallCount]]
    /\ UNCHANGED <<resumes, apiCallCount, liveRequests, jobs, recs, started>>

\* the response is sent and the request ends
RouteReturn(p) ==
    /\ call[p].pc = "rt_done"
    /\ call' = [call EXCEPT ![p] = IdleCall]
    /\ UNCHANGED <<resumes, apiCallCount, liveRequests, jobs, recs, started>>

SearchStep(p) ==
    \/ ProviderResolve(p)
    \/ ProviderReject(p)
    \/ StoreCommit(p)
    \/ StoreFail(p)
    \/ CacheQuery(p)
    \/ CacheQueryFail(p)

Quiet == \A q \in Procs : call[q].pc = "idle"

\* searches one at a time
SeqStart(p) == Quiet /\ SearchJobsStart(p)

NextSeq ==
    \E p \in Procs :
        SeqStart(p) \/ SearchStep(p) \/ SearchJobsReturn(p) \/ RouteReturn(p)

SpecSeq == Init /\ [][NextSeq]_vars

\* searches in flight at once
Next ==
    \E p \in Procs :
        \/ SearchJobsStart(p)
        \/ SearchStep(p)
        \/ SearchJobsReturn(p)
        \/ RouteReturn(p)

Spec == Init /\ [][Next]_vars

(***************************************************************************)
(* refreshJobs and POST /jobs/refresh: a search whose response is read for *)
(* the log line and dropped.                                               *)
(***************************************************************************)
\* refreshJobs(keywords, location) up to the first await of searchJobs
RefreshJobsStart(p) ==
    /\ call[p].pc = "idle"
    /\ started < MaxCalls
    /\ started' = started + 1
    /\ \E params \in SearchParams :
          call' = [call EXCEPT ![p] =
              SearchJobsBegin([IdleCall EXCEPT !.kind = "refresh"],
                              [params EXCEPT !.page = ""])]
    /\ liveRequests' = RequestsAfterBegin
    /\ UNCHANGED <<resumes, apiCallCount, jobs, recs>>

\* searchJobs returned: response.jobs.length throws on a response without
\* jobs and refreshJobs rethrows (route: 500); otherwise it resolves with
\* nothing (route: 200)
RefreshJobsReturn(p) ==
    /\ call[p].pc = "sj_done"
    /\ call[p].kind = "refresh"
    /\ call' = [call EXCEPT ![p] =
          IF call[p].result.jobsField = "undefined"
          THEN [@ EXCEPT !.pc = "rt_done", !.status = 500,
                         !.result = EmptyResponse, !.void = TRUE]
          ELSE [@ EXCEPT !.pc = "rt_done", !.status = 200,
                         !.result = EmptyResponse, !.void = TRUE]]
    /\ UNCHANGED <<resumes, apiCallCount, liveRequests, jobs, recs, started>>

NextRefresh ==
    \E p \in Procs :
        \/ SearchJobsStart(p)
        \/ RefreshJobsStart(p)
        \/ SearchStep(p)
        \/ SearchJobsReturn(p)
        \/ RefreshJobsReturn(p)
        \/ RouteReturn(p)

SpecRefresh == Init /\ [][NextRefresh]_vars

(***************************************************************************)
(* storeRecommendations.  The statements of its transaction run on one     *)
(* connection under READ COMMITTED: a statement reads what is committed    *)
(* when it starts and what its own transaction wrote; it waits for the     *)
(* transaction that holds a row it is to write.  What the transaction wrote *)
(* is in call[p].tx until COMMIT; jobs and recs are what other sessions    *)
(* read.                                                                   *)
(***************************************************************************)
\* JSON.stringify(rec.recommendationReasons || [])
JsonStringify(reasons) == [json |-> reasons]

\* the row of job_recommendations for a match
RecRow(rec) ==
    [match_score |-> rec.matchScore,
     recommendation_reasons |-> JsonStringify(rec.recommendationReasons)]

\* the row of jobs inserted for a match whose posting is not there
RecommendedJobRow(rec) ==
    [title |-> rec.job.title,
     company |-> OrElse(rec.job.company, "Unknown"),
     location |-> rec.job.location,
     description |-> rec.job.snippet,
     url |-> rec.job.link,
     posted_date |-> IF rec.job.updated = NoDate THEN Now ELSE rec.job.updated,
     salary |-> OrElse(rec.job.salary, "Not specified"),
     source |-> OrElse(rec.job.source, "jooble"),
     experience_required |-> "Not specified",
     job_type |-> OrElse(rec.job.type, "Full-time"),
     is_active |-> TRUE,
     id |-> rec.job.link,
     updated_at |-> "default",
     copies |-> 1]

\* between BEGIN and COMMIT or ROLLBACK
InTx(c) == c.pc \in {"st_delete", "st_check", "st_insert", "st_upsert", "st_commit"}

\* between BEGIN and COMMIT or ROLLBACK of storeJobsInDatabase
InJobsTx(c) == c.pc \in {"sj_select", "sj_insert", "sj_update", "sj_commit"}

SameKey(c, d) == c.user = d.user /\ c.resume = d.resume

\* the rows of job_recommendations an open transaction holds, by job id
Locked(c) == c.tx.deleted \cup {j \in URLs : c.tx.recRows[j] # NoRow}

\* no other open transaction for the same key holds one of these rows
RowsFree(p, rows) ==
    \A q \in Procs \ {p} :
        (InTx(call[q]) /\ SameKey(call[q], call[p])) =>
            rows \cap Locked(call[q]) = {}

ApplyTx_WholeUser(db, c) ==
    [jobs |-> [u \in URLs |->
                  IF c.tx.jobRows[u] = NoRow THEN db.jobs[u]
                  ELSE IF u \in c.tx.inserted /\ db.jobs[u] # NoRow
                  THEN [c.tx.jobRows[u] EXCEPT !.copies = @ + db.jobs[u].copies]
                  ELSE c.tx.jobRows[u]],
     recs |-> [k \in RecKeys |->
                  IF k[1] = c.user /\ k[2] = c.resume
                  THEN IF c.tx.recRows[k[3]] # NoRow THEN c.tx.recRows[k[3]]
                       ELSE IF k[3] \in c.tx.deleted THEN NoRow
                       ELSE db.recs[k]
                  ELSE IF k[1] = c.user THEN NoRow
                  ELSE db.recs[k]]]

\* the tables once the transaction of c is committed
ApplyTx(db, c) ==
    [jobs |-> [u \in URLs |->
                  IF c.tx.jobRows[u] = NoRow THEN db.jobs[u]
                  ELSE IF u \in c.tx.inserted /\ db.jobs[u] # NoRow
                  THEN [c.tx.jobRows[u] EXCEPT !.copies = @ + db.jobs[u].copies]
                  ELSE c.tx.jobRows[u]],
     recs |-> [k \in RecKeys |->
                  IF k[1] = c.user /\ k[2] = c.resume
                  THEN IF c.tx.recRows[k[3]] # NoRow THEN c.tx.recRows[k[3]]
                       ELSE IF k[3] \in c.tx.deleted THEN NoRow
                       ELSE db.recs[k]
                  ELSE db.recs[k]]]

\* a ROLLBACK that leaves the rows of jobs written so far
RollBack_KeepJobs(db, c) == [ApplyTx(db, c) EXCEPT !.recs = db.recs]

\* a catch block that commits what was done so far
RollBack_Commit(db, c) == ApplyTx(db, c)

\* ROLLBACK: the tables without anything the transaction of c wrote
RollBack(db, c) == db

\* pool.connect, BEGIN, and the DELETE is sent: it is to remove the rows
\* for the key that are committed now
StoreRecommendationsBegin(c, user, resume, list) ==
    [c EXCEPT !.pc = "st_delete", !.user = user, !.resume = resume,
              !.recommendations = list, !.idx = 1,
              !.tx = [NoTx EXCEPT !.snapshot =
                         {j \in URLs : recs[<<user, resume, j>>] # NoRow}]]

\* the position after the statements for one match, or after the DELETE
NextItem(c, i) ==
    IF i > Len(c.recommendations) THEN "st_commit" ELSE "st_check"

\* DELETE FROM job_recommendations WHERE user_id = $1 AND resume_id = $2
StoreDelete(p) ==
    /\ call[p].pc = "st_delete"
    /\ RowsFree(p, call[p].tx.snapshot)
    /\ call' = [call EXCEPT ![p] =
          [@ EXCEPT !.pc = NextItem(call[p], 1),
                    !.tx.deleted = call[p].tx.snapshot]]
    /\ UNCHANGED <<resumes, apiCallCount, liveRequests, jobs, recs, started>>

\* SELECT id FROM jobs WHERE url = $1
StoreJobCheck(p) ==
    /\ call[p].pc = "st_check"
    /\ LET link == call[p].recommendations[call[p].idx].job.link
           found == jobs[link] # NoRow \/ call[p].tx.jobRows[link] # NoRow
       IN  call' = [call EXCEPT ![p] =
               [@ EXCEPT !.pc = IF found THEN "st_upsert" ELSE "st_insert",
                         !.jobFound = found]]
    /\ UNCHANGED <<resumes, apiCallCount, liveRequests, jobs, recs, started>>

\* the catch block of storeRecommendations: ROLLBACK, throw error
StoreRecommendationsCatch(c) == [c EXCEPT !.pc = "st_rejected"]

\* an INSERT INTO jobs of this url has to wait: url is unique and an open
\* transaction of another session has inserted it
InsertWaits(p, link) ==
    /\ UniqueUrl
    /\ \E q \in Procs \ {p} :
          /\ InTx(call[q]) \/ InJobsTx(call[q])
          /\ link \in call[q].tx.inserted

\* INSERT INTO jobs ... RETURNING id: with url unique the statement fails
\* when the url is committed by now.
StoreJobInsert(p) ==
    /\ call[p].pc = "st_insert"
    /\ LET rec == call[p].recommendations[call[p].idx]
       IN  /\ ~InsertWaits(p, rec.job.link)
           /\ call' = [call EXCEPT ![p] =
                 IF UniqueUrl /\ jobs[rec.job.link] # NoRow
                 THEN StoreRecommendationsCatch(@)
                 ELSE [@ EXCEPT !.pc = "st_upsert",
                                !.tx.inserted = @ \cup {rec.job.link},
                                !.tx.jobRows[rec.job.link] =
                                    RecommendedJobRow(rec)]]
    /\ UNCHANGED <<resumes, apiCallCount, liveRequests, jobs, recs, started>>

\* INSERT INTO job_recommendations ... ON CONFLICT (user_id, resume_id,
\* job_id) DO UPDATE SET match_score = $4, recommendation_reasons = $5
StoreUpsert(p) ==
    /\ call[p].pc = "st_upsert"
    /\ LET rec == call[p].recommendations[call[p].idx]
       IN  /\ RowsFree(p, {rec.job.link})
           /\ call' = [call EXCEPT ![p] =
                 [@ EXCEPT !.pc = NextItem(call[p], call[p].idx + 1),
                           !.idx = @ + 1,
                           !.tx.recRows[rec.job.link] = RecRow(rec)]]
    /\ UNCHANGED <<resumes, apiCallCount, liveRequests, jobs, recs, started>>

\* COMMIT.  A DELETE of another session that waits finds the rows this
\* transaction deleted gone.
StoreTxCommit(p) ==
    /\ call[p].pc = "st_commit"
    /\ LET db == ApplyTx([jobs |-> jobs, recs |-> recs], call[p])
       IN  jobs' = db.jobs /\ recs' = db.recs
    /\ call' = [q \in Procs |->
          IF q = p THEN [call[p] EXCEPT !.pc = "st_done"]
          ELSE IF InTx(call[q]) /\ SameKey(call[q], call[p])
          THEN [call[q] EXCEPT !.tx.snapshot = @ \ call[p].tx.deleted]
          ELSE call[q]]
    /\ UNCHANGED <<resumes, apiCallCount, liveRequests, started>>

\* a statement failed (an error of the database or the connection, a
\* deadlock): the catch block
StoreTxFail(p) ==
    /\ InTx(call[p])
    /\ LET db == RollBack([jobs |-> jobs, recs |-> recs], call[p])
       IN  jobs' = db.jobs /\ recs' = db.recs
    /\ call' = [call EXCEPT ![p] = StoreRecommendationsCatch(@)]
    /\ UNCHANGED <<resumes, apiCallCount, liveRequests, started>>

StoreStep(p) ==
    \/ StoreDelete(p)
    \/ StoreJobCheck(p)
    \/ StoreUpsert(p)
    \/ StoreTxCommit(p)
    \/ StoreTxFail(p)

(***************************************************************************)
(* GET /jobs/recommendations and getRecommendedJobs.                       *)
(***************************************************************************)
\* the parameters of the search and of the cache query
RecommendParams(analysis, filters) ==
    [keywords |-> IF filters.keywords # <<>> THEN filters.keywords
                  ELSE ExtractKeywordsFromResume(analysis),
     location |-> filters.location,
     page |-> "1"]

\* the route after getRecommendedJobs returned: 400 when it did not succeed,
\* storeRecommendations when the list is not empty, else 200
RouteAfterRecommend(c) ==
    IF c.recommended # "success" THEN [c EXCEPT !.pc = "rt_done", !.status = 400]
    ELSE IF c.recommendations # <<>>
    THEN StoreRecommendationsBegin(c, c.user, c.resume, c.recommendations)
    ELSE [c EXCEPT !.pc = "rt_done", !.status = 200]

\* the route calls getRecommendedJobs with the analysis of the user's
\* resume: the validation gate, then searchJobs
RecommendStart(p) ==
    /\ call[p].pc = "idle"
    /\ started < MaxRuns
    /\ started' = started + 1
    /\ \E user \in Users, resume \in Resumes, analysis \in Analyses,
          filters \in Filters :
          LET c == [IdleCall EXCEPT !.kind = "recs", !.user = user,
                                    !.resume = resume, !.analysis = analysis,
                                    !.filters = filters]
          IN  IF ValidateResumeFormat(analysis)
              THEN /\ call' = [call EXCEPT ![p] =
                         SearchJobsBegin(c, RecommendParams(analysis, filters))]
                   /\ liveRequests' = RequestsAfterBegin
              ELSE /\ call' = [call EXCEPT ![p] =
                         RouteAfterRecommend([c EXCEPT !.recommended = "invalid"])]
                   /\ UNCHANGED liveRequests
    /\ UNCHANGED <<resumes, apiCallCount, jobs, recs>>

Combined_Uncaught(c, dbJobs) ==
    IF c.result.jobsField = "undefined"
    THEN [c EXCEPT !.pc = "rec_rejected"]
    ELSE [c EXCEPT !.pc = "rec_oracle", !.oracleCalls = 1,
                   !.allJobs = DeduplicateJobs(c.result.jobs \o dbJobs.jobs)]

\* [...joobleJobs.jobs, ...dbJobs.jobs] and deduplicateJobs; spreading
\* throws when the search returned a body without jobs, and the catch block
\* of getRecommendedJobs returns success: false
Combined(c, dbJobs) ==
    IF c.result.jobsField = "undefined"
    THEN RouteAfterRecommend([c EXCEPT !.recommended = "error"])
    ELSE [c EXCEPT !.pc = "rec_oracle", !.oracleCalls = 1,
                   !.allJobs = DeduplicateJobs(c.result.jobs \o dbJobs.jobs)]

\* searchJobs returned; getJobsFromDatabase, the query succeeding
RecommendCacheQuery(p) ==
    /\ call[p].pc = "sj_done"
    /\ call[p].kind = "recs"
    /\ \E res \in GetJobsFromDatabase(jobs, call[p].params) :
          call' = [call EXCEPT ![p] = Combined([@ EXCEPT !.dbOk = TRUE], res)]
    /\ UNCHANGED <<resumes, apiCallCount, liveRequests, jobs, recs, started>>

\* searchJobs returned; getJobsFromDatabase, the query failing
RecommendCacheQueryFail(p) ==
    /\ call[p].pc = "sj_done"
    /\ call[p].kind = "recs"
    /\ call' = [call EXCEPT ![p] = Combined(@, EmptyResponse)]
    /\ UNCHANGED <<resumes, apiCallCount, liveRequests, jobs, recs, started>>

\* the oracle call of calculateMLMatches settled: the ranked list, and
\* getRecommendedJobs returns success: true
RecommendRank(p) ==
    /\ call[p].pc = "rec_oracle"
    /\ \E oracle \in OracleAnswers :
          \E ranked \in {CalculateJobMatches(call[p].allJobs,
                              call[p].analysis, call[p].filters, oracle)} :
              \E returned \in {RouteAfterRecommend(
                                   [call[p] EXCEPT
                                       !.recommended = "success",
                                       !.recommendations = ranked])} :
                  call' = [call EXCEPT ![p] = returned]
    /\ UNCHANGED <<resumes, apiCallCount, liveRequests, jobs, recs, started>>

\* storeRecommendations returned: 200; it threw: the catch block, 500
RouteAfterStore(p) ==
    /\ call[p].pc \in {"st_done", "st_rejected"}
    /\ call[p].kind = "recs"
    /\ call' = [call EXCEPT ![p] =
          [@ EXCEPT !.pc = "rt_done",
                    !.status = IF call[p].pc = "st_done" THEN 200 ELSE 500]]
    /\ UNCHANGED <<resumes, apiCallCount, liveRequests, jobs, recs, started>>

RecommendStep(p) ==
    \/ RecommendCacheQuery(p)
    \/ RecommendCacheQueryFail(p)
    \/ RecommendRank(p)
    \/ RouteAfterStore(p)
    \/ RouteReturn(p)

RecommendSeqStart(p) == Quiet /\ RecommendStart(p)

\* recommendation requests one at a time.  The postings of a list the route
\* ranked are rows of jobs by then (searchJobs stored them, or the cache
\* queries read them), so the INSERT INTO jobs of storeRecommendations is
\* not among the steps.
NextRecs ==
    \E p \in Procs :
        \/ RecommendSeqStart(p)
        \/ SearchStep(p)
        \/ RecommendStep(p)
        \/ StoreStep(p)

SpecRecs == Init /\ [][NextRecs]_vars

\* every external call in flight (provider, database, oracle) settles in
\* the end: axios carries a timeout, the database answers or fails
RecommendFirstStart(p) == started = 0 /\ RecommendSeqStart(p)

NextRecsLive ==
    \E p \in Procs :
        RecommendFirstStart(p) \/ SearchStep(p) \/ RecommendStep(p)
            \/ StoreStep(p)

SpecRecsLive ==
    /\ Init /\ [][NextRecsLive]_vars
    /\ WF_vars(\E p \in Procs :
                    SearchStep(p) \/ RecommendStep(p) \/ StoreStep(p))

(***************************************************************************)
(* storeRecommendations called for lists the ranker gives, by sessions     *)
(* that run at once.                                                       *)
(***************************************************************************)
JobLists == {<<JobA>>, <<JobB>>, <<JobA2, JobB>>}

NoOracle == [kind |-> "error", matches |-> <<>>]

MatchLists ==
    {CalculateJobMatches(list, AnalysisB, NoFilters, NoOracle) : list \in JobLists}

InitStore ==
    /\ apiCallCount = 0
    /\ liveRequests = 0
    /\ jobs \in {[u \in URLs |-> NoRow], StoreBatch([u \in URLs |-> NoRow], <<JobA>>)}
    /\ recs = [k \in RecKeys |-> NoRow]
    /\ call = [p \in Procs |-> IdleCall]
    /\ resumes = [r \in Resumes |-> NoResume]
    /\ started = 0

StoreStart(p) ==
    /\ call[p].pc = "idle"
    /\ started < MaxStores
    /\ started' = started + 1
    /\ \E user \in Users, resume \in Resumes, list \in MatchLists :
          call' = [call EXCEPT ![p] =
              StoreRecommendationsBegin([IdleCall EXCEPT !.kind = "store"],
                                        user, resume, list)]
    /\ UNCHANGED <<resumes, apiCallCount, liveRequests, jobs, recs>>

\* the call returned or threw, and its caller goes on
StoreReturn(p) ==
    /\ call[p].pc \in {"st_done", "st_rejected", "rd_done"}
    /\ call[p].kind = "store"
    /\ call' = [call EXCEPT ![p] = IdleCall]
    /\ UNCHANGED <<resumes, apiCallCount, liveRequests, jobs, recs, started>>

NextStore ==
    \E p \in Procs :
        \/ StoreStart(p)
        \/ StoreStep(p)
        \/ StoreJobInsert(p)
        \/ StoreReturn(p)

SpecStore == InitStore /\ [][NextStore]_vars

(***************************************************************************)
(* storeJobsInDatabase statement by statement, for searches and            *)
(* storeRecommendations running at once.  Its transaction is one           *)
(* connection under READ COMMITTED, as that of storeRecommendations.       *)
(***************************************************************************)
\* the calls that write to the cache in one run
MaxBatches == 2

\* the position after the statements for posting i - 1 of the batch
NextPosting(c, i) == IF i > Len(c.body.jobs) THEN "sj_commit" ELSE "sj_select"

\* pool.connect, BEGIN, and the loop is entered: iterating throws when jobs
\* is no array
StoreJobsBegin(p) ==
    /\ call[p].pc = "sj_store"
    /\ call' = [call EXCEPT ![p] =
          IF call[p].body.jobsField = "array"
          THEN [@ EXCEPT !.pc = NextPosting(call[p], 1), !.idx = 1, !.tx = NoTx]
          ELSE SearchJobsCatch(@)]
    /\ UNCHANGED <<resumes, apiCallCount, liveRequests, jobs, recs, started>>

\* SELECT id FROM jobs WHERE url = $1
StoreJobsSelect(p) ==
    /\ call[p].pc = "sj_select"
    /\ LET link == call[p].body.jobs[call[p].idx].link
           found == jobs[link] # NoRow \/ call[p].tx.jobRows[link] # NoRow
       IN  call' = [call EXCEPT ![p] =
               [@ EXCEPT !.pc = IF found THEN "sj_update" ELSE "sj_insert",
                         !.jobFound = found]]
    /\ UNCHANGED <<resumes, apiCallCount, liveRequests, jobs, recs, started>>

\* INSERT INTO jobs: with url unique the statement fails when the url is
\* committed by now, and the catch block rolls back and throws
StoreJobsInsert(p) ==
    /\ call[p].pc = "sj_insert"
    /\ LET job == call[p].body.jobs[call[p].idx]
       IN  /\ ~InsertWaits(p, job.link)
           /\ call' = [call EXCEPT ![p] =
                 IF UniqueUrl /\ jobs[job.link] # NoRow
                 THEN SearchJobsCatch(@)
                 ELSE [@ EXCEPT !.pc = NextPosting(call[p], call[p].idx + 1),
                                !.idx = @ + 1,
                                !.tx.inserted = @ \cup {job.link},
                                !.tx.jobRows[job.link] = InsertedRow(job)]]
    /\ UNCHANGED <<resumes, apiCallCount, liveRequests, jobs, recs, started>>

\* UPDATE jobs SET ... WHERE url = $7: it waits for an open transaction
\* that has updated the row, and updates the row as committed by then
StoreJobsUpdate(p) ==
    /\ call[p].pc = "sj_update"
    /\ LET job == call[p].body.jobs[call[p].idx]
           row == IF call[p].tx.jobRows[job.link] # NoRow
                  THEN call[p].tx.jobRows[job.link] ELSE jobs[job.link]
       IN  /\ \A q \in Procs \ {p} :
                 InJobsTx(call[q]) =>
                     \/ call[q].tx.jobRows[job.link] = NoRow
                     \/ job.link \in call[q].tx.inserted
           /\ call' = [call EXCEPT ![p] =
                 [@ EXCEPT !.pc = NextPosting(call[p], call[p].idx + 1),
                           !.idx = @ + 1,
                           !.tx.jobRows[job.link] = UpdatedRow(row, job)]]
    /\ UNCHANGED <<resumes, apiCallCount, liveRequests, jobs, recs, started>>

\* COMMIT, and searchJobs returns the provider's answer
StoreJobsCommit(p) ==
    /\ call[p].pc = "sj_commit"
    /\ jobs' = ApplyTx([jobs |-> jobs, recs |-> recs], call[p]).jobs
    /\ call' = [call EXCEPT ![p] =
          [@ EXCEPT !.pc = "sj_done", !.result = call[p].body]]
    /\ UNCHANGED <<resumes, apiCallCount, liveRequests, recs, started>>

\* pool.connect, BEGIN or a statement failed (an error of the database or
\* the connection, a deadlock): ROLLBACK, and the error reaches the catch
\* block of searchJobs
StoreJobsFail(p) ==
    /\ call[p].pc = "sj_store" \/ InJobsTx(call[p])
    /\ jobs' = RollBack([jobs |-> jobs, recs |-> recs], call[p]).jobs
    /\ call' = [call EXCEPT ![p] = SearchJobsCatch(@)]
    /\ UNCHANGED <<resumes, apiCallCount, liveRequests, recs, started>>

\* a search, a refresh or a replace of recommendations begins, MaxBatches
\* of them in all
BatchStart(p) ==
    /\ started < MaxBatches
    /\ SearchJobsStart(p) \/ StoreStart(p)

NextCache ==
    \E p \in Procs :
        \/ BatchStart(p)
        \/ ProviderResolve(p)
        \/ ProviderReject(p)
        \/ StoreJobsBegin(p)
        \/ StoreJobsSelect(p)
        \/ StoreJobsInsert(p)
        \/ StoreJobsUpdate(p)
        \/ StoreJobsCommit(p)
        \/ StoreJobsFail(p)
        \/ CacheQuery(p)
        \/ CacheQueryFail(p)
        \/ SearchJobsReturn(p)
        \/ RouteReturn(p)
        \/ StoreStep(p)
        \/ StoreJobInsert(p)
        \/ StoreReturn(p)

SpecCache == InitStore /\ [][NextCache]_vars

(***************************************************************************)
(* The analysis service and the resume record: uploads, the analyze        *)
(* endpoints, analyzeResumeText and the re-analysis that opens the         *)
(* recommendations route.                                                  *)
(***************************************************************************)
MaxAnalyses == 3

\* createResume: ids are serial, the new row becomes the latest one
NextResumeId(rows) ==
    IF rows["r1"] = NoResume THEN "r1" ELSE "r2"

CreateResume(rows, r) ==
    [x \in Resumes |->
        IF x = r
        THEN [status |-> "default", analysis_data |-> NullData, latest |-> TRUE]
        ELSE [rows[x] EXCEPT !.latest = FALSE]]

\* getLatestResume: the rows with is_latest
LatestResume(rows) == {r \in Resumes : rows[r].latest}

\* UPDATE resumes SET status = $1, analysis_data = $2 WHERE id = $3
UpdateResumeStatus(rows, r, status, data) ==
    [rows EXCEPT ![r].status = status, ![r].analysis_data = data]

\* return response.data
ResponseData_Percent(body) ==
    IF body.success THEN [body EXCEPT !.score = @ * 100] ELSE body

ResponseData(body) == body

\* POST /upload-resume up to the row being created
UploadStart(p) ==
    /\ call[p].pc = "idle"
    /\ resumes["r2"] = NoResume
    /\ \E level \in Levels :
        call' = [call EXCEPT ![p] =
                    [IdleCall EXCEPT !.pc = "up_created", !.kind = "upload",
                                     !.resume = NextResumeId(resumes),
                                     !.level = level]]
    /\ resumes' = CreateResume(resumes, NextResumeId(resumes))
    /\ UNCHANGED <<apiCallCount, liveRequests, jobs, recs>>

\* if (targetLevel) updateResumeStatus(resume.id, 'uploaded', { targetLevel })
UploadStoreLevel(p) ==
    /\ call[p].pc = "up_created"
    /\ resumes' =
        IF call[p].level # "none"
        THEN UpdateResumeStatus(resumes, call[p].resume, "uploaded",
                                AnalysisData(NoResult, call[p].level))
        ELSE resumes
    /\ call' = [call EXCEPT ![p].pc = "rt_done", ![p].status = 200]
    /\ UNCHANGED <<apiCallCount, liveRequests, jobs, recs, started>>

\* the request of analyzeResume / analyzeResumeText to the semantic endpoint
SemanticCall(c) ==
    [c EXCEPT !.pc = "an_semantic", !.semCalls = 1, !.first = "semantic"]

\* analyzeResumeById and analyzeLatestResume up to the call of analyzeResume
AnalyzeStart(p) ==
    /\ call[p].pc = "idle"
    /\ \E endpoint \in {"byId", "latest"}, id \in Resumes, level \in Levels,
          fileExists \in BOOLEAN :
        LET found == IF endpoint = "byId"
                     THEN {r \in {id} : resumes[r] # NoResume}
                     ELSE LatestResume(resumes)
            c == [IdleCall EXCEPT !.kind = "analyze", !.level = level]
        IN  call' = [call EXCEPT ![p] =
                IF found = {}
                THEN [c EXCEPT !.pc = "rt_done", !.status = 404]
                ELSE LET r == CHOOSE x \in found : TRUE
                     IN  IF /\ endpoint = "latest"
                            /\ level = "none"
                            /\ resumes[r].status = "processed"
                            /\ ~resumes[r].analysis_data.null
                         THEN [c EXCEPT !.pc = "rt_done", !.status = 200,
                                        !.resume = r,
                                        !.answer = resumes[r].analysis_data.result]
                         ELSE IF ~fileExists
                         THEN [c EXCEPT !.pc = "rt_done", !.status = 404,
                                        !.resume = r]
                         ELSE SemanticCall([c EXCEPT !.resume = r])]
    /\ UNCHANGED <<resumes, apiCallCount, liveRequests, jobs, recs>>

\* GET /jobs/recommendations up to the call of analyzeResume
ReanalyzeStart(p) ==
    /\ call[p].pc = "idle"
    /\ \E fileExists \in BOOLEAN :
        LET found == LatestResume(resumes)
            c == [IdleCall EXCEPT !.kind = "reanalyze"]
        IN  call' = [call EXCEPT ![p] =
                IF found = {}
                THEN [c EXCEPT !.pc = "rt_done", !.status = 404]
                ELSE LET r == CHOOSE x \in found : TRUE
                         stored == resumes[r].analysis_data
                         d == [c EXCEPT !.resume = r,
                                        !.level = IF stored.targetLevel = "none"
                                                  THEN "entry"
                                                  ELSE stored.targetLevel]
                     IN  IF stored.null
                         THEN [c EXCEPT !.pc = "rt_done", !.status = 400,
                                        !.resume = r]
                         ELSE IF ~fileExists
                         THEN [d EXCEPT !.pc = "an_returned",
                                        !.answer = FailedResult]
                         ELSE SemanticCall(d)]
    /\ UNCHANGED <<resumes, apiCallCount, liveRequests, jobs, recs>>

\* analyzeResumeText(text) up to its first request
AnalyzeTextStart(p) ==
    /\ call[p].pc = "idle"
    /\ \E text \in {<<>>, <<" ">>, <<"a">>} :
        LET c == [IdleCall EXCEPT !.kind = "text", !.input = text]
        IN  call' = [call EXCEPT ![p] =
                IF ~NonBlank(text)
                THEN [c EXCEPT !.pc = "an_returned", !.answer = FailedResult]
                ELSE SemanticCall(c)]
    /\ UNCHANGED <<resumes, apiCallCount, liveRequests, jobs, recs>>

AnalysisStart(p) ==
    /\ started < MaxAnalyses
    /\ started' = started + 1
    /\ \/ UploadStart(p)
       \/ AnalyzeStart(p)
       \/ ReanalyzeStart(p)
       \/ AnalyzeTextStart(p)

\* the semantic request settles: a 2xx body is returned as it is, a thrown
\* error (timeout, refused connection, non-2xx status) sends the request to
\* the rule-based endpoint
SemanticSettle(p) ==
    /\ call[p].pc = "an_semantic"
    /\ \/ \E body \in ScorerAnswers("ml") :
            call' = [call EXCEPT ![p].pc = "an_returned",
                                 ![p].semantic = "ok",
                                 ![p].answer = ResponseData(body)]
       \/ call' = [call EXCEPT ![p].pc = "an_returned",
                               ![p].semantic = "malformed",
                               ![p].answer = ResponseData(MalformedBody)]
       \/ \E thrown \in {"timeout", "unavailable", "status"} :
            call' = [call EXCEPT ![p].pc = "an_rule",
                                 ![p].semantic = thrown,
                                 ![p].ruleCalls = 1]
    /\ UNCHANGED <<resumes, apiCallCount, liveRequests, jobs, recs, started>>

\* the rule-based request settles
RuleSettle(p) ==
    /\ call[p].pc = "an_rule"
    /\ \/ \E body \in ScorerAnswers("rule") \cup {MalformedBody} :
            call' = [call EXCEPT ![p].pc = "an_returned",
                                 ![p].answer = ResponseData(body)]
       \/ call' = [call EXCEPT ![p].pc = "an_returned",
                               ![p].answer = FailedResult]
    /\ UNCHANGED <<resumes, apiCallCount, liveRequests, jobs, recs, started>>

\* the caller of the scoring attempt: the analyze endpoints answer 500 on a
\* failure and store a success; the recommendations route stores a success
\* and goes on to the recommendation with whichever analysis it holds
AnalysisReturn(p) ==
    /\ call[p].pc = "an_returned"
    /\ LET c == call[p]
       IN  /\ resumes' =
                IF c.kind = "analyze" /\ c.answer.success
                THEN UpdateResumeStatus(resumes, c.resume, "processed",
                                        AnalysisData(c.answer, c.level))
                ELSE IF c.kind = "reanalyze" /\ c.answer.success
                THEN UpdateResumeStatus(resumes, c.resume, "processed",
                                        AnalysisData(c.answer, "none"))
                ELSE resumes
           /\ call' = [call EXCEPT ![p].pc = "rt_done",
                                   ![p].status =
                                        IF c.kind = "analyze" /\ ~c.answer.success
                                        THEN 500 ELSE 200]
    /\ UNCHANGED <<apiCallCount, liveRequests, jobs, recs, started>>

NextAnalysis ==
    \E p \in Procs :
        \/ AnalysisStart(p)
        \/ UploadStoreLevel(p)
        \/ SemanticSettle(p)
        \/ RuleSettle(p)
        \/ AnalysisReturn(p)
        \/ RouteReturn(p)

SpecAnalysis == Init /\ [][NextAnalysis]_vars

(***************************************************************************)
(* createResume statement by statement, for uploads that run at once.  The *)
(* transaction keeps in tx.snapshot the rows its UPDATE read (the rows of  *)
(* the user committed when the statement began) and in resume the id of    *)
(* the row it inserted.                                                    *)
(***************************************************************************)
InCreate(c) == c.pc \in {"cr_update", "cr_locked", "cr_insert", "cr_commit"}

\* the rows of resumes that exist
Stored(rows) == {r \in Resumes : rows[r] # NoResume}

\* the ids the sequence of resumes.id has not handed out
FreeIds(p) ==
    {r \in Resumes \ Stored(resumes) :
        \A q \in Procs \ {p} : ~(call[q].pc = "cr_commit" /\ call[q].resume = r)}

\* POST /upload-resume: pool.connect, BEGIN, and the UPDATE is sent
CreateResumeBegin(p) ==
    /\ call[p].pc = "idle"
    /\ Cardinality(Stored(resumes))
          + Cardinality({q \in Procs : InCreate(call[q])}) < Cardinality(Resumes)
    /\ \E level \in Levels :
          call' = [call EXCEPT ![p] =
              [IdleCall EXCEPT !.pc = "cr_update", !.kind = "upload",
                               !.level = level]]
    /\ UNCHANGED <<resumes, apiCallCount, liveRequests, jobs, recs, started>>

\* UPDATE resumes SET is_latest = false WHERE user_id = $1 reads the rows
\* of the user that are committed now
CreateResumeRead(p) ==
    /\ call[p].pc = "cr_update"
    /\ call' = [call EXCEPT ![p].pc = "cr_locked",
                            ![p].tx.snapshot = Stored(resumes)]
    /\ UNCHANGED <<resumes, apiCallCount, liveRequests, jobs, recs, started>>

\* ... and updates them once no open transaction holds one of them
CreateResumeUpdate(p) ==
    /\ call[p].pc = "cr_locked"
    /\ \A q \in Procs \ {p} :
          call[q].pc \in {"cr_insert", "cr_commit"} =>
              call[q].tx.snapshot \cap call[p].tx.snapshot = {}
    /\ call' = [call EXCEPT ![p].pc = "cr_insert"]
    /\ UNCHANGED <<resumes, apiCallCount, liveRequests, jobs, recs, started>>

\* INSERT INTO resumes (..., is_latest) VALUES (..., true) RETURNING *
CreateResumeInsert(p) ==
    /\ call[p].pc = "cr_insert"
    /\ FreeIds(p) # {}
    /\ call' = [call EXCEPT ![p].pc = "cr_commit",
                            ![p].resume =
                                IF "r1" \in FreeIds(p) THEN "r1" ELSE "r2"]
    /\ UNCHANGED <<resumes, apiCallCount, liveRequests, jobs, recs, started>>

\* the table once the transaction of c is committed
CommittedResumes(rows, c) ==
    [x \in Resumes |->
        IF x = c.resume
        THEN [status |-> "default", analysis_data |-> NullData, latest |-> TRUE]
        ELSE IF x \in c.tx.snapshot
        THEN [rows[x] EXCEPT !.latest = FALSE]
        ELSE rows[x]]

\* COMMIT, and createResume returns the row
CreateResumeCommit(p) ==
    /\ call[p].pc = "cr_commit"
    /\ resumes' = CommittedResumes(resumes, call[p])
    /\ call' = [call EXCEPT ![p].pc = "up_created"]
    /\ UNCHANGED <<apiCallCount, liveRequests, jobs, recs, started>>

\* a statement failed: ROLLBACK, throw, and the catch of the route: 500
CreateResumeFail(p) ==
    /\ InCreate(call[p])
    /\ call' = [call EXCEPT ![p].pc = "rt_done", ![p].status = 500,
                            ![p].resume = "", ![p].tx = NoTx]
    /\ UNCHANGED <<resumes, apiCallCount, liveRequests, jobs, recs, started>>

NextUpload ==
    \E p \in Procs :
        \/ CreateResumeBegin(p)
        \/ CreateResumeRead(p)
        \/ CreateResumeUpdate(p)
        \/ CreateResumeInsert(p)
        \/ CreateResumeCommit(p)
        \/ CreateResumeFail(p)
        \/ UploadStoreLevel(p)
        \/ RouteReturn(p)

SpecUpload == Init /\ [][NextUpload]_vars

(***************************************************************************)
(* getJobsFromDatabase called on a cache that holds postings already.      *)
(***************************************************************************)
\* a row that was taken out of service (is_active = false)
Retired(table, u) ==
    IF table[u] = NoRow THEN table ELSE [table EXCEPT ![u].is_active = FALSE]

CacheTables ==
    LET empty == [u \in URLs |-> NoRow]
        stored == {StoreBatch(empty, b) :
                      b \in ProviderBatches \cup {<<JobA, JobB>>, <<JobB>>}}
    IN  stored \cup {Retired(t, "u1") : t \in stored}

QueryParams ==
    {[keywords |-> <<"b">>, location |-> <<>>, page |-> "1"],
     [keywords |-> <<"A">>, location |-> <<"a">>, page |-> "1"],
     [keywords |-> <<>>, location |-> <<"b">>, page |-> "1"],
     [keywords |-> <<"a", "_">>, location |-> <<>>, page |-> "1"],
     [keywords |-> <<"%">>, location |-> <<>>, page |-> "1"],
     [keywords |-> <<"a", "b">>, location |-> <<"_">>, page |-> "1"]}

InitQuery ==
    /\ apiCallCount = 0
    /\ liveRequests = 0
    /\ jobs \in CacheTables
    /\ recs = [k \in RecKeys |-> NoRow]
    /\ call = [p \in Procs |-> IdleCall]
    /\ resumes = [r \in Resumes |-> NoResume]
    /\ started = 0

\* getJobsFromDatabase(params) up to the await of pool.query
GetJobsFromDatabaseCall(p) ==
    /\ call[p].pc = "idle"
    /\ \E params \in QueryParams :
          call' = [call EXCEPT ![p] =
              [IdleCall EXCEPT !.pc = "sj_cache", !.kind = "query",
                               !.params = params]]
    /\ UNCHANGED <<resumes, apiCallCount, liveRequests, jobs, recs, started>>

\* the response back at the caller
GetJobsFromDatabaseReturn(p) ==
    /\ call[p].pc = "sj_done"
    /\ call[p].kind = "query"
    /\ call' = [call EXCEPT ![p] = IdleCall]
    /\ UNCHANGED <<resumes, apiCallCount, liveRequests, jobs, recs, started>>

NextQuery ==
    \E p \in Procs :
        \/ GetJobsFromDatabaseCall(p)
        \/ CacheQuery(p)
        \/ CacheQueryFail(p)
        \/ GetJobsFromDatabaseReturn(p)

SpecQuery == InitQuery /\ [][NextQuery]_vars

(***************************************************************************)
(* getUserRecommendations, called by a session once its                    *)
(* storeRecommendations returned.                                          *)
(***************************************************************************)
\* the limits asked for; 20 is the default
Limits == {1, 2, 20}

\* the row the query returns for a row of job_recommendations and the row
\* of jobs it joins
JoinedRow(rec, job) ==
    [match_score |-> rec.match_score,
     recommendation_reasons |-> rec.recommendation_reasons,
     job_id |-> job.id, title |-> job.title, company |-> job.company,
     location |-> job.location, description |-> job.description,
     url |-> job.url, posted_date |-> job.posted_date, salary |-> job.salary,
     experience_required |-> job.experience_required,
     job_type |-> job.job_type, source |-> job.source]

\* the query of getUserRecommendations: the rows of the user (of every
\* resume) joined with their active postings, highest score first, cut at
\* the limit.  Rows of equal score come in either order (created_at is not
\* in the model).
GetUserRecommendations(jobTable, recTable, user, limit) ==
    LET keys == {k \in RecKeys : /\ k[1] = user
                                 /\ recTable[k] # NoRow
                                 /\ jobTable[k[3]] # NoRow
                                 /\ jobTable[k[3]].is_active}
        n == Cardinality(keys)
        orders == {s \in [1..n -> keys] :
                      /\ IsInjective(s)
                      /\ \A i \in 1..(n - 1) :
                            recTable[s[i]].match_score >=
                                recTable[s[i + 1]].match_score}
    IN  {[i \in 1..Min(limit, n) |->
             JoinedRow(recTable[s[i]], jobTable[s[i][3]])] : s \in orders}

\* the query succeeding
ReadStored(p) ==
    /\ call[p].pc = "st_done"
    /\ call[p].kind = "store"
    /\ \E limit \in Limits :
          \E rows \in GetUserRecommendations(jobs, recs, call[p].user, limit) :
              call' = [call EXCEPT ![p] =
                  [@ EXCEPT !.pc = "rd_done", !.limit = limit,
                            !.readOk = TRUE, !.rows = rows]]
    /\ UNCHANGED <<resumes, apiCallCount, liveRequests, jobs, recs, started>>

\* the query failing: the catch block returns []
ReadStoredFail(p) ==
    /\ call[p].pc = "st_done"
    /\ call[p].kind = "store"
    /\ call' = [call EXCEPT ![p] = [@ EXCEPT !.pc = "rd_done"]]
    /\ UNCHANGED <<resumes, apiCallCount, liveRequests, jobs, recs, started>>

StoreSeqStart(p) == Quiet /\ StoreStart(p)

\* sessions one at a time, each replacing a set and reading it back
NextRoundTrip ==
    \E p \in Procs :
        \/ StoreSeqStart(p)
        \/ StoreStep(p)
        \/ StoreJobInsert(p)
        \/ ReadStored(p)
        \/ ReadStoredFail(p)
        \/ StoreReturn(p)

SpecRoundTrip == InitStore /\ [][NextRoundTrip]_vars

(***************************************************************************)
(* The functions of the ranker called on their own, one call at a time:    *)
(* the inputs are in the call's record when it has returned (pc fn_done).  *)
(***************************************************************************)
\* the sequences over S of length at most n
SeqsUpTo(S, n) == UNION {[1..k -> S] : k \in 0..n}

\* deduplicateJobs(list)
DeduplicateJobsCall(p) ==
    /\ Quiet
    /\ \E list \in SeqsUpTo({JobA, JobA2, JobB}, MaxList) :
          call' = [call EXCEPT ![p] =
              [IdleCall EXCEPT !.pc = "fn_done", !.fn = "deduplicateJobs",
                               !.input = list,
                               !.allJobs = DeduplicateJobs(list)]]
    /\ UNCHANGED <<resumes, apiCallCount, liveRequests, jobs, recs, started>>

\* the analyses handed to validateResumeFormat: every outcome of the five
\* checks, at the edges of their thresholds
FormatAnalyses ==
    {[NoAnalysis EXCEPT !.info = TRUE, !.infoSkills = skills,
                        !.sections = sections, !.contact = contact,
                        !.work = we[1], !.education = we[2],
                        !.wordCount = words] :
        skills \in {<< <<"b">>, <<"A">> >>, << <<"b">>, <<"A">>, <<"b">> >>},
        sections \in {1, 2}, contact \in BOOLEAN,
        we \in {<<0, 0>>, <<1, 0>>, <<0, 2>>},
        words \in {0, 199, 200, 2000, 2001}}
    \cup {NoAnalysis, [NoAnalysis EXCEPT !.wordCount = 300]}

\* validateResumeFormat(analysis)
ValidateResumeFormatCall(p) ==
    /\ Quiet
    /\ \E analysis \in FormatAnalyses :
          call' = [call EXCEPT ![p] =
              [IdleCall EXCEPT !.pc = "fn_done", !.fn = "validateResumeFormat",
                               !.analysis = analysis,
                               !.valid = ValidateResumeFormat(analysis)]]
    /\ UNCHANGED <<resumes, apiCallCount, liveRequests, jobs, recs, started>>

\* a posting by its link, text, age in hours (NoDate: no date) and salary
Posting(link, title, snippet, age, salary) ==
    [title |-> title, location |-> <<>>, snippet |-> snippet,
     salary |-> salary, source |-> "web", type |-> "", link |-> link,
     updated |-> IF age = NoDate THEN NoDate ELSE Now - age, company |-> "",
     id |-> link]

\* postings at the edges of the freshness bands, with and without salary
ScoredJobs ==
    {Posting("s", title, <<"a">>, age, salary) :
        title \in {<<"B">>, <<"x">>},
        age \in {0, 7 * 24, 7 * 24 + 1, 14 * 24, 14 * 24 + 1, 30 * 24,
                 30 * 24 + 1, NoDate},
        salary \in {"", "50k", "Not specified"}}

\* analyses with no, one and more skills of either kind
ScoredAnalyses ==
    {[AnalysisB EXCEPT !.score = ats, !.technical = technical, !.soft = soft] :
        ats \in {0, 81, 100},
        technical \in {<<>>, << <<"b">> >>, << <<"b">>, <<"x">>, <<"S", "Q", "L">> >>},
        soft \in {<<>>, << <<"a">> >>, << <<"a">>, <<"S", "Q", "L">> >>}}
    \cup {AnalysisList, AnalysisBare}

\* calculateMatchScore(job, analysis)
CalculateMatchScoreCall(p) ==
    /\ Quiet
    /\ \E job \in ScoredJobs, analysis \in ScoredAnalyses :
          call' = [call EXCEPT ![p] =
              [IdleCall EXCEPT !.pc = "fn_done", !.fn = "calculateMatchScore",
                               !.allJobs = <<job>>, !.analysis = analysis,
                               !.score = CalculateMatchScore(job, analysis)]]
    /\ UNCHANGED <<resumes, apiCallCount, liveRequests, jobs, recs, started>>

\* the postings of the scenario: one about python and react, 2 days old,
\* one about sales, 60 days old
ScenarioJobs ==
    <<Posting("s1", <<"P", "y", "t", "h", "o", "n", " ", "a", "n", "d", " ",
                      "R", "e", "a", "c", "t">>, <<"d", "e", "v">>, 2 * 24, ""),
      Posting("s2", <<"S", "a", "l", "e", "s">>, <<"r", "e", "p">>, 60 * 24, "")>>

\* the analysis of the scenario, ATS score 81, its skills python, react and
\* aws in one of the places extractKeywordsFromResume reads
ScenarioAnalysis(shape) ==
    LET skills == << <<"p", "y", "t", "h", "o", "n">>, <<"r", "e", "a", "c", "t">>,
                     <<"a", "w", "s">> >>
    IN  [NoAnalysis EXCEPT
            !.info = TRUE, !.score = 81, !.sections = 2, !.contact = TRUE,
            !.wordCount = 400,
            !.infoSkills = IF shape = "extractedInfo" THEN skills ELSE <<>>,
            !.skillsKind = IF shape = "technical" THEN "object"
                           ELSE IF shape = "array" THEN "array" ELSE "none",
            !.technical = IF shape = "technical" THEN skills ELSE <<>>,
            !.skillsList = IF shape = "array" THEN skills ELSE <<>>]

Shapes == {"extractedInfo", "technical", "array"}

\* postings around the cutoff of a days_posted of 7, and one without a date
BoundaryJobs ==
    <<Posting("d1", <<"b">>, <<>>, 7 * 24, ""),
      Posting("d2", <<"b">>, <<>>, 7 * 24 + 1, "50k"),
      Posting("d3", <<"x">>, <<>>, 8 * 24, ""),
      Posting("d4", <<"b">>, <<"a">>, NoDate, ""),
      Posting("d5", <<"x">>, <<>>, 0, "")>>

\* n postings with links of their own, 1 to n days old
ManyJobs(n) ==
    [i \in 1..n |->
        Posting("m" \o ToString(i), IF i % 2 = 0 THEN <<"b">> ELSE <<"x">>,
                <<>>, 24 * i, IF i % 3 = 0 THEN "50k" ELSE "")]

RankedLists ==
    {<<>>, <<JobA2, JobB>>, ScenarioJobs, BoundaryJobs, ManyJobs(MAX_MATCHES + 2)}

RankedAnalyses ==
    {AnalysisB, AnalysisList} \cup {ScenarioAnalysis(shape) : shape \in Shapes}

RankedFilters ==
    {[NoFilters EXCEPT !.min_match_score = m, !.days_posted = d, !.given = g] :
        m \in {0, 500}, d \in {0, 7},
        g \in SUBSET {"min_match_score", "days_posted"}}

\* what the oracle may answer for n postings: an error, a body without
\* success, no matches, a list one short, a list aligned with the postings
OracleAnswersFor(n) ==
    LET Entry(i) == [matchScore |-> ((i * 7) % 10) * 100,
                     semanticSimilarity |-> i, reasons |-> <<"semantic", i>>]
    IN  {[kind |-> "error", matches |-> <<>>],
         [kind |-> "nomatches", matches |-> <<>>],
         [kind |-> "matches", matches |-> <<>>],
         [kind |-> "matches", matches |-> [i \in 1..(n - 1) |-> Entry(i)]],
         [kind |-> "matches", matches |-> [i \in 1..n |-> Entry(i)]]}

\* calculateJobMatches(jobs, analysis, filters) up to the call of the oracle
CalculateJobMatchesCall(p) ==
    /\ Quiet
    /\ \E list \in RankedLists, analysis \in RankedAnalyses,
          filters \in RankedFilters :
          call' = [call EXCEPT ![p] =
              [IdleCall EXCEPT !.pc = "fn_oracle", !.fn = "calculateJobMatches",
                               !.allJobs = list, !.analysis = analysis,
                               !.filters = filters, !.oracleCalls = 1]]
    /\ UNCHANGED <<resumes, apiCallCount, liveRequests, jobs, recs, started>>

\* the call of the oracle settled, and calculateJobMatches returns
CalculateJobMatchesSettle(p) ==
    /\ call[p].pc = "fn_oracle"
    /\ \E oracle \in OracleAnswersFor(Len(call[p].allJobs)) :
          call' = [call EXCEPT ![p] =
              [@ EXCEPT !.pc = "fn_done", !.oracle = oracle,
                        !.ruleScored = RuleScored(call[p].allJobs, oracle),
                        !.recommendations =
                            CalculateJobMatches(call[p].allJobs,
                                call[p].analysis, call[p].filters, oracle)]]
    /\ UNCHANGED <<resumes, apiCallCount, liveRequests, jobs, recs, started>>

\* the skills of the analyses extractKeywordsFromResume is called with: the
\* same keyword in three spellings, blank keywords only, and a long list
\* with every category, more than five soft skills and a repeated keyword
SpellingsAnalysis ==
    [NoAnalysis EXCEPT !.info = TRUE,
        !.infoSkills = <<<<"P", "y", "t", "h", "o", "n">>,
                      <<" ", "p", "y", "t", "h", "o", "n", " ">>>>,
        !.skillsKind = "object",
        !.technical = <<<<"p", "y", "t", "h", "o", "n">>,
                     <<"P", "y", "t", "h", "o", "n">>>>]

BlankSkillsAnalysis ==
    [NoAnalysis EXCEPT !.info = TRUE,
        !.infoSkills = <<<<>>,
                      <<" ">>,
                      <<" ", " ">>>>]

ManySkillsAnalysis ==
    [NoAnalysis EXCEPT !.info = TRUE,
        !.infoSkills = <<<<"t", "e", "s", "t", "i", "n", "g">>,
                      <<"l", "e", "a", "d", "e", "r", "s", "h", "i", "p">>,
                      <<"s", "c", "r", "u", "m">>,
                      <<"c", "o", "m", "m", "u", "n", "i", "c", "a", "t", "i", "o", "n">>,
                      <<"f", "i", "g", "m", "a">>,
                      <<"t", "e", "a", "m", "w", "o", "r", "k">>,
                      <<"p", "a", "n", "d", "a", "s">>,
                      <<"a", "n", "a", "l", "y", "t", "i", "c", "a", "l">>,
                      <<"s", "q", "l">>,
                      <<"m", "e", "n", "t", "o", "r", "i", "n", "g">>,
                      <<"a", "w", "s">>,
                      <<"p", "r", "e", "s", "e", "n", "t", "a", "t", "i", "o", "n">>,
                      <<"p", "y", "t", "h", "o", "n">>,
                      <<"s", "a", "l", "e", "s", " ", "n", "e", "g", "o", "t", "i", "a", "t", "i", "o", "n">>,
                      <<"r", "e", "a", "c", "t">>,
                      <<"r", "e", "s", "t", " ", "a", "p", "i">>,
                      <<"l", "e", "a", "d", "e", "r", "s", "h", "i", "p">>>>]

FewSkillsAnalysis ==
    [NoAnalysis EXCEPT !.skillsKind = "array",
        !.skillsList = <<<<"t", "e", "a", "m", "w", "o", "r", "k">>,
                      <<"D", "o", "c", "k", "e", "r">>,
                      <<"n", "e", "g", "o", "t", "i", "a", "t", "i", "o", "n">>,
                      <<"n", "o", "d", "e", ".", "j", "s">>>>]

KeywordAnalyses ==
    {NoAnalysis, SpellingsAnalysis, BlankSkillsAnalysis, ManySkillsAnalysis,
     FewSkillsAnalysis, AnalysisList}

\* a call of extractKeywordsFromResume(analysis)
ExtractKeywordsFromResumeCall(p) ==
    /\ Quiet
    /\ \E analysis \in KeywordAnalyses :
          call' = [call EXCEPT ![p] =
              [IdleCall EXCEPT !.pc = "fn_done",
                               !.fn = "extractKeywordsFromResume",
                               !.analysis = analysis,
                               !.keywords = FinalKeywords(analysis),
                               !.query = ExtractKeywordsFromResume(analysis)]]
    /\ UNCHANGED <<resumes, apiCallCount, liveRequests, jobs, recs, started>>

\* the function returned to its caller
FunctionReturn(p) ==
    /\ call[p].pc = "fn_done"
    /\ call' = [call EXCEPT ![p] = IdleCall]
    /\ UNCHANGED <<resumes, apiCallCount, liveRequests, jobs, recs, started>>

NextRanker ==
    \E p \in Procs :
        \/ DeduplicateJobsCall(p)
        \/ ValidateResumeFormatCall(p)
        \/ CalculateMatchScoreCall(p)
        \/ CalculateJobMatchesCall(p)
        \/ CalculateJobMatchesSettle(p)
        \/ ExtractKeywordsFromResumeCall(p)
        \/ FunctionReturn(p)

SpecRanker == Init /\ [][NextRanker]_vars

(***************************************************************************)
(* The budget.                                                             *)
(***************************************************************************)
\* p's call has just ended (returned or thrown) in this step
Ends(p) == call[p].pc \notin {"idle", "sj_done", "sj_rejected"}
           /\ call'[p].pc \in {"sj_done", "sj_rejected"}

\* C1: with searches running one at a time, apiCallCount is at most
\* API_LIMIT in every reachable state, whatever the provider answers.
C1_CountWithinLimitSequential == apiCallCount <= API_LIMIT

\* a search took the last call of the budget and a later one was served
\* from the cache
C1_Witness ==
    /\ apiCallCount = API_LIMIT
    /\ \E p \in Procs : call[p].pc = "sj_done" /\ call[p].atLimit

\* C2: with searches in flight at once, apiCallCount never exceeds
\* API_LIMIT and no more than API_LIMIT provider requests are ever issued.
C2_CountWithinLimitConcurrent ==
    /\ apiCallCount <= API_LIMIT
    /\ liveRequests <= API_LIMIT

\* C3: a search started once apiCallCount has reached API_LIMIT issues no
\* provider request, returns the answer of the cache query for its
\* parameters and leaves apiCallCount equal to API_LIMIT.
C3_CacheOnlyOnceLimitReached ==
    [][\A p \in Procs :
          (Ends(p) /\ call[p].atLimit) =>
              /\ ~call'[p].live
              /\ call[p].pc = "sj_cache"
              /\ call'[p].pc = "sj_done"
              /\ call'[p].cacheOk =>
                    call'[p].result \in GetJobsFromDatabase(jobs, call[p].params)
              /\ ~call'[p].cacheOk => call'[p].result = EmptyResponse
              /\ apiCallCount' = API_LIMIT]_vars

\* C4: a search adds exactly 1 to apiCallCount when its provider call
\* succeeded and 0 otherwise (budget exhausted, timeout, non-2xx status,
\* malformed body), and the counter never decreases.
C4_OneIncrementPerSuccess ==
    [][/\ apiCallCount' >= apiCallCount
       /\ \A p \in Procs :
             Ends(p) =>
                 call'[p].incs = IF call'[p].prov = "array" THEN 1 ELSE 0]_vars

(***************************************************************************)
(* Failures of the provider and of the cache.                              *)
(***************************************************************************)
\* C5: whatever the provider call and the cache write do, searchJobs does
\* not reject; when the provider call failed and the cache query
\* succeeds, it returns the cache query's answer for the same parameters.
C5_ProviderFailureServedFromCache ==
    [][\A p \in Procs :
          /\ call'[p].pc # "sj_rejected"
          /\ (Ends(p) /\ call'[p].prov \in ProviderErrors /\ call'[p].cacheOk) =>
                call'[p].result \in GetJobsFromDatabase(jobs, call[p].params)]_vars

\* a search whose provider call failed returned postings from the cache
C5_Witness ==
    \E p \in Procs :
        /\ call[p].pc = "sj_done"
        /\ call[p].prov \in ProviderErrors
        /\ call[p].cacheOk
        /\ call[p].result.jobs # <<>>

\* C6: when the cache query fails, getJobsFromDatabase returns no postings
\* and totalCount 0 and does not throw, and so does a searchJobs that fell
\* back to it.
C6_CacheFailureIsEmptyResult ==
    \A p \in Procs :
        (call[p].pc \in {"sj_done", "sj_rejected"}
            /\ call[p].via # "none" /\ ~call[p].cacheOk) =>
                /\ call[p].pc = "sj_done"
                /\ call[p].result.totalCount = 0
                /\ call[p].result.jobs = <<>>

\* a search fell back to the cache after a provider failure, the cache
\* query failed, and the search returned
C6_Witness ==
    \E p \in Procs :
        /\ call[p].pc = "sj_done"
        /\ call[p].via = "catch"
        /\ ~call[p].cacheOk
        /\ jobs # [u \in URLs |-> NoRow]

(***************************************************************************)
(* Recommendations.                                                        *)
(***************************************************************************)
\* the rows of job_recommendations for (user, resume), by job id
StoredSet(table, user, resume) == [j \in URLs |-> table[<<user, resume, j>>]]

\* one row per posting of the list, with the list's score and reasons
ListRows(list) ==
    [j \in URLs |->
        IF \E i \in 1..Len(list) : list[i].job.link = j
        THEN RecRow(list[CHOOSE i \in 1..Len(list) : list[i].job.link = j])
        ELSE NoRow]

\* C7: for an analysis that passes the validation gate and cache queries
\* that succeed, getRecommendedJobs returns success: true, whatever the
\* provider and the scoring oracle did.
C7_ValidAnalysisAlwaysSucceeds ==
    \A p \in Procs :
        (/\ call[p].kind = "recs"
         /\ call[p].recommended # "none"
         /\ ValidateResumeFormat(call[p].analysis)
         /\ call[p].via = "none" \/ call[p].cacheOk
         /\ call[p].dbOk) =>
            call[p].recommended = "success"

\* p's transaction has just committed in this step
Commits(p) == call[p].pc = "st_commit" /\ call'[p].pc = "st_done"

\* C8: a storeRecommendations that fails rejects and leaves the committed
\* rows of job_recommendations and of jobs as they were; the committed rows
\* change only in the step in which a call commits, and then by everything
\* that call wrote.
C8_StoreIsAllOrNothing ==
    [][/\ \A p \in Procs :
             (InTx(call[p]) /\ call'[p].pc = "st_rejected") =>
                 recs' = recs /\ jobs' = jobs
       /\ (recs' # recs \/ jobs' # jobs) =>
             \E p \in Procs :
                 /\ Commits(p)
                 /\ [jobs |-> jobs', recs |-> recs'] =
                        ApplyTx([jobs |-> jobs, recs |-> recs], call[p])]_vars

\* a call was rejected after it had deleted the committed rows for its key,
\* inserted a posting and written a recommendation: those rows are there
C8_Witness ==
    \E p \in Procs :
        /\ call[p].pc = "st_rejected"
        /\ call[p].tx.deleted # {}
        /\ \E j \in URLs : call[p].tx.recRows[j] # NoRow
        /\ \E u \in URLs : call[p].tx.jobRows[u] # NoRow /\ jobs[u] = NoRow
        /\ \A j \in call[p].tx.deleted :
              recs[<<call[p].user, call[p].resume, j>>] # NoRow

\* C9: when storeRecommendations(user, resume, list) commits, the committed
\* rows for (user, resume) are one row per posting of the list with the
\* list's score and reasons, and no other row.
C9_CommittedSetIsTheList ==
    [][\A p \in Procs :
          Commits(p) =>
              StoredSet(recs', call[p].user, call[p].resume) =
                  ListRows(call[p].recommendations)]_vars

\* C10: when the recommendations route answers 200, the stored set for the
\* (user, resume) of the request is the list in the response, also when
\* that list is empty.
C10_StoredSetIsTheReturnedList ==
    \A p \in Procs :
        (call[p].pc = "rt_done" /\ call[p].status = 200) =>
            StoredSet(recs, call[p].user, call[p].resume) =
                ListRows(call[p].recommendations)

\* the rows are the postings of the list with the list's scores
SameMatches(rows, list) ==
    /\ Len(rows) = Len(list)
    /\ {<<rows[i].url, rows[i].match_score>> : i \in 1..Len(rows)} =
           {<<list[i].job.link, list[i].matchScore>> : i \in 1..Len(list)}

\* C11: round trip.  Once storeRecommendations(user, resume, list) has
\* committed, getUserRecommendations(user, limit) with limit >= |list|
\* returns the postings of the list with their scores, highest score
\* first, also when the user holds a set for another resume.
C11_ReadReturnsWhatWasStored ==
    \A p \in Procs :
        (call[p].pc = "rd_done" /\ call[p].readOk
            /\ call[p].limit >= Len(call[p].recommendations)) =>
                /\ SameMatches(call[p].rows, call[p].recommendations)
                /\ \A i \in 1..(Len(call[p].rows) - 1) :
                      call[p].rows[i].match_score >= call[p].rows[i + 1].match_score

(***************************************************************************)
(* The ranker.                                                             *)
(***************************************************************************)
\* the position of the first posting with this link
FirstWith(list, link) ==
    CHOOSE i \in 1..Len(list) :
        list[i].link = link /\ \A j \in 1..(i - 1) : list[j].link # link

\* C12: deduplicateJobs returns each URL of its input exactly once, keeps
\* for a URL the first posting of the input with that URL, unchanged, and
\* keeps the postings in the order of their first appearance.
C12_FirstSeenWins ==
    \A p \in Procs :
        (call[p].pc = "fn_done" /\ call[p].fn = "deduplicateJobs") =>
            LET in == call[p].input
                out == call[p].allJobs
            IN  /\ \A i \in 1..Len(in) :
                      Cardinality({j \in 1..Len(out) : out[j].link = in[i].link}) = 1
                /\ \A j \in 1..Len(out) :
                      /\ \E i \in 1..Len(in) : in[i].link = out[j].link
                      /\ out[j] = in[FirstWith(in, out[j].link)]
                /\ \A j, k \in 1..Len(out) :
                      j < k => FirstWith(in, out[j].link) < FirstWith(in, out[k].link)

\* a list in which a URL comes twice with different field values, between
\* them a posting of another URL
C12_Witness ==
    \E p \in Procs :
        /\ call[p].pc = "fn_done" /\ call[p].fn = "deduplicateJobs"
        /\ call[p].input = <<JobA2, JobB, JobA>>
        /\ call[p].allJobs = <<JobA2, JobB>>

\* a call of calculateJobMatches that has returned
RankerDone(p) == call[p].pc = "fn_done" /\ call[p].fn = "calculateJobMatches"

\* the oracle answered with a list aligned with a non-empty list of postings
OnSemanticPath(p) ==
    /\ call[p].oracle.kind = "matches"
    /\ call[p].allJobs # <<>>
    /\ Len(call[p].oracle.matches) >= Len(call[p].allJobs)

\* posting i of the call with the score it was given
ScoredAt(p, i) ==
    [job |-> call[p].allJobs[i],
     matchScore |->
         IF OnSemanticPath(p) THEN call[p].oracle.matches[i].matchScore
         ELSE RoundedTenths(CalculateMatchScore(call[p].allJobs[i],
                                                call[p].analysis))]

\* posting i of the call is in the list returned
InOutput(p, i) ==
    \E k \in 1..Len(call[p].recommendations) :
        call[p].recommendations[k].job = call[p].allJobs[i]

\* posting i was left out of a full list of 20 whose scores are no lower
CutByCap(p, i) ==
    /\ Len(call[p].recommendations) = 20
    /\ \A k \in 1..20 :
          call[p].recommendations[k].matchScore >= ScoredAt(p, i).matchScore

\* C13: on the semantic and on the rule-based path the list the ranker
\* returns has non-increasing matchScore and at most 20 elements, and when
\* more than 20 postings pass the filters the 20 kept are those with the
\* highest matchScore.
C13_SortedAndCapped ==
    \A p \in Procs :
        RankerDone(p) =>
            LET out == call[p].recommendations
                passing == {i \in 1..Len(call[p].allJobs) :
                               /\ MeetsMinimum(ScoredAt(p, i), call[p].filters)
                               /\ PostedWithin(ScoredAt(p, i), call[p].filters)}
            IN  /\ \A k \in 1..(Len(out) - 1) :
                      out[k].matchScore >= out[k + 1].matchScore
                /\ Len(out) <= 20
                /\ \A k \in 1..Len(out) :
                      \E i \in passing : out[k].job = call[p].allJobs[i]
                /\ Cardinality(passing) > 20 =>
                      /\ Len(out) = 20
                      /\ \A i \in passing : InOutput(p, i) \/ CutByCap(p, i)

\* 22 postings scored by the rules, none filtered out: 20 returned, the
\* first with a higher score than the last
C13_Witness ==
    \E p \in Procs :
        /\ RankerDone(p) /\ ~OnSemanticPath(p)
        /\ Len(call[p].allJobs) = 22
        /\ call[p].filters.given = {}
        /\ Len(call[p].recommendations) = 20
        /\ call[p].recommendations[1].matchScore
               > call[p].recommendations[20].matchScore

\* C14: when min_match_score = m is given every posting in the ranker's
\* output has matchScore >= m, a posting whose matchScore equals m is
\* kept, and every scored posting with matchScore >= m that passes the date
\* filter is in the output unless the cap of 20 cut it.
C14_MinimumScoreRespected ==
    \A p \in Procs :
        (RankerDone(p) /\ "min_match_score" \in call[p].filters.given) =>
            LET out == call[p].recommendations
                min == call[p].filters.min_match_score
            IN  /\ \A k \in 1..Len(out) : out[k].matchScore >= min
                /\ \A i \in 1..Len(call[p].allJobs) :
                      (/\ ScoredAt(p, i).matchScore >= min
                       /\ PostedWithin(ScoredAt(p, i), call[p].filters)) =>
                          InOutput(p, i) \/ CutByCap(p, i)

\* a minimum of 50 given: a posting scored exactly 50 is returned and a
\* posting scored lower is not
C14_Witness ==
    \E p \in Procs :
        /\ RankerDone(p)
        /\ "min_match_score" \in call[p].filters.given
        /\ call[p].filters.min_match_score = 500
        /\ \E k \in 1..Len(call[p].recommendations) :
              call[p].recommendations[k].matchScore = 500
        /\ \E i \in 1..Len(call[p].allJobs) :
              ScoredAt(p, i).matchScore < 500 /\ ~InOutput(p, i)

\* posting i of the call was posted at most d days before the request
PostedAtMost(p, i, d) ==
    /\ call[p].allJobs[i].updated # NoDate
    /\ Now - call[p].allJobs[i].updated <= 24 * d

\* C15: when days_posted = d is given a posting is kept by the ranker if
\* and only if it was posted at most d days before the request (exactly d
\* days old: kept; older: dropped), whether or not min_match_score is
\* given too; a posting below the minimum or cut by the cap of 20 is
\* dropped for that reason.
C15_DaysPostedRespected ==
    \A p \in Procs :
        (RankerDone(p) /\ "days_posted" \in call[p].filters.given) =>
            \A i \in 1..Len(call[p].allJobs) :
                /\ InOutput(p, i) => PostedAtMost(p, i, call[p].filters.days_posted)
                /\ (/\ PostedAtMost(p, i, call[p].filters.days_posted)
                    /\ MeetsMinimum(ScoredAt(p, i), call[p].filters)) =>
                       InOutput(p, i) \/ CutByCap(p, i)

\* the oracle threw or timed out, answered without success, or with a list
\* shorter than the postings (an empty one included)
OracleFailed(p) ==
    \/ call[p].oracle.kind \in {"error", "nomatches"}
    \/ /\ call[p].oracle.kind = "matches"
       /\ Len(call[p].oracle.matches) < Len(call[p].allJobs)

\* C16: if the call of the oracle throws, times out, answers success =
\* false or answers with an empty or too short list of matches,
\* calculateJobMatches returns the rule-based ranking of the same postings:
\* every posting scored by calculateMatchScore, then filtered, sorted and
\* capped.
C16_FallsBackToRules ==
    \A p \in Procs :
        (RankerDone(p) /\ OracleFailed(p)) =>
            /\ call[p].ruleScored = Len(call[p].allJobs)
            /\ call[p].recommendations =
                   FilterAndSortMatches(
                       RuleMatches(call[p].allJobs, call[p].analysis),
                       call[p].filters)
            /\ \A k \in 1..Len(call[p].recommendations) :
                  call[p].recommendations[k].semanticSimilarity = "undefined"

\* the oracle answered with a list one short of the two postings: both
\* come back with their rule-based scores
C16_Witness ==
    \E p \in Procs :
        /\ RankerDone(p)
        /\ call[p].oracle.kind = "matches"
        /\ Len(call[p].oracle.matches) = 1
        /\ Len(call[p].allJobs) = 2
        /\ Len(call[p].recommendations) = 2
        /\ call[p].recommendations[1].semanticSimilarity = "undefined"

\* posting i of the call with what entry i of the oracle's answer says
WithOracleEntry(p, i) ==
    [job |-> call[p].allJobs[i],
     matchScore |-> call[p].oracle.matches[i].matchScore,
     recommendationReasons |-> call[p].oracle.matches[i].reasons,
     semanticSimilarity |-> call[p].oracle.matches[i].semanticSimilarity]

\* C17: when the oracle answers with a list of matches aligned with a
\* non-empty list of postings, the ranker has called the oracle exactly
\* once, every result is a posting i with the matchScore,
\* semanticSimilarity and reasons of entry i, every posting that the
\* filters and the cap let through is such a result, and no rule-based
\* score is computed.
C17_OracleAnswerAttachedByPosition ==
    \A p \in Procs :
        (RankerDone(p) /\ OnSemanticPath(p)) =>
            LET out == call[p].recommendations
            IN  /\ call[p].oracleCalls = 1
                /\ call[p].ruleScored = 0
                /\ \A k \in 1..Len(out) :
                      \E i \in 1..Len(call[p].allJobs) :
                          out[k] = WithOracleEntry(p, i)
                /\ \A i \in 1..Len(call[p].allJobs) :
                      (/\ MeetsMinimum(WithOracleEntry(p, i), call[p].filters)
                       /\ PostedWithin(WithOracleEntry(p, i), call[p].filters)) =>
                          \/ \E k \in 1..Len(out) : out[k] = WithOracleEntry(p, i)
                          \/ CutByCap(p, i)

\* five postings and five entries: the fourth posting, which the oracle
\* scored highest, comes first with the fourth entry's similarity
C17_Witness ==
    \E p \in Procs :
        /\ RankerDone(p) /\ OnSemanticPath(p)
        /\ Len(call[p].allJobs) = 5
        /\ Len(call[p].recommendations) = 5
        /\ call[p].recommendations[1] = WithOracleEntry(p, 4)
        /\ call[p].recommendations[1].semanticSimilarity = 4

\* the claim's formula for the score of a posting, as a fraction: a ratio
\* over no skills counts 0
C18_Formula(job, analysis) ==
    LET tech == IF analysis.skillsKind = "object" THEN analysis.technical ELSE <<>>
        soft == IF analysis.skillsKind = "object" THEN analysis.soft ELSE <<>>
        InText(s) == Includes(ToLowerCase(job.title \o <<" ">> \o job.snippet),
                              ToLowerCase(s))
        tt == Len(tech)
        st == Len(soft)
        tm == Cardinality({i \in 1..tt : InText(tech[i])})
        sm == Cardinality({i \in 1..st : InText(soft[i])})
        td == IF tt = 0 THEN 1 ELSE tt
        sd == IF st = 0 THEN 1 ELSE st
        days == Now - job.updated
        fresh == IF days <= 7 * 24 THEN 15 ELSE IF days <= 14 * 24 THEN 12
                 ELSE IF days <= 30 * 24 THEN 8 ELSE 4
        sal == IF job.salary \notin {"", "Not specified"} THEN 10 ELSE 0
        num == 200 * tm * sd + 75 * sm * td + analysis.score * td * sd
               + 5 * (fresh + sal) * td * sd
        den == 5 * td * sd
    IN  IF num > 100 * den THEN [num |-> 100, den |-> 1]
        ELSE [num |-> num, den |-> den]

\* C18 as stated: on the rule-based path the matchScore of every posting
\* returned equals min(100, 40 * matched technical skills / technical
\* skills + 15 * matched soft skills / soft skills + 20 * atsScore / 100 +
\* freshness + 10 if it has a salary), with no rounding.
C18_ScoreIsExactlyTheFormula ==
    \A p \in Procs :
        (RankerDone(p) /\ ~OnSemanticPath(p)) =>
            \A k \in 1..Len(call[p].recommendations) :
                LET f == C18_Formula(call[p].recommendations[k].job,
                                     call[p].analysis)
                IN  call[p].recommendations[k].matchScore * f.den = 10 * f.num

\* C18: calculateMatchScore returns min(100, 40 * matched technical
\* skills / technical skills + 15 * matched soft skills / soft skills +
\* 20 * atsScore / 100 + freshness + 10 if it has a salary), with
\* freshness 15, 12, 8, 4 for at most 7, 14, 30 and more days, a value in
\* [0, 100]; on the rule-based path the matchScore of every posting
\* returned is that value rounded to one decimal place, halves up.
C18_ScoreIsTheFormula ==
    \A p \in Procs :
        /\ (call[p].pc = "fn_done" /\ call[p].fn = "calculateMatchScore") =>
              LET s == call[p].score
                  f == C18_Formula(call[p].allJobs[1], call[p].analysis)
              IN  /\ s.num >= 0 /\ s.den > 0 /\ s.num <= 100 * s.den
                  /\ s.num * f.den = f.num * s.den
        /\ (RankerDone(p) /\ ~OnSemanticPath(p)) =>
              \A k \in 1..Len(call[p].recommendations) :
                  LET f == C18_Formula(call[p].recommendations[k].job,
                                       call[p].analysis)
                      tenths == call[p].recommendations[k].matchScore
                  IN  /\ tenths \in 0..1000
                      /\ 2 * f.den * tenths <= 20 * f.num + f.den
                      /\ 20 * f.num + f.den < 2 * f.den * (tenths + 1)

\* the posting of the scenario that mentions two of three technical
\* skills, 2 days old, ATS score 81: 80/3 + 16.2 + 15 = 57.8666..., returned
\* with a matchScore of 57.9
C18_Witness ==
    \E p \in Procs :
        /\ RankerDone(p) /\ ~OnSemanticPath(p)
        /\ call[p].allJobs = ScenarioJobs
        /\ call[p].analysis = ScenarioAnalysis("technical")
        /\ call[p].recommendations # <<>>
        /\ call[p].recommendations[1].job = ScenarioJobs[1]
        /\ call[p].recommendations[1].matchScore = 579

\* C19: on the rule-based path, for an analysis with the skills python,
\* react and aws and ATS score 81, a min_match_score of 50 and the two
\* postings of the scenario, the ranker returns exactly one result, the
\* first posting, with matchScore >= 50, in whichever of the supported
\* places the analysis carries the three skills.
C19_ScenarioReturnsTheFirstPosting ==
    \A p \in Procs :
        (/\ RankerDone(p) /\ ~OnSemanticPath(p)
         /\ call[p].allJobs = ScenarioJobs
         /\ \E shape \in Shapes : call[p].analysis = ScenarioAnalysis(shape)
         /\ call[p].filters.given = {"min_match_score"}
         /\ call[p].filters.min_match_score = 500) =>
            /\ Len(call[p].recommendations) = 1
            /\ call[p].recommendations[1].job = ScenarioJobs[1]
            /\ call[p].recommendations[1].matchScore >= 500

\* the five checks of the claim that an analysis passes
C20_Checks(analysis) ==
    {c \in 1..5 :
        CASE c = 1 -> Len(analysis.infoSkills) >= 3
          [] c = 2 -> analysis.sections >= 2
          [] c = 3 -> analysis.contact
          [] c = 4 -> analysis.work >= 1 \/ analysis.education >= 1
          [] c = 5 -> analysis.wordCount \in 200..2000}

\* C20: validateResumeFormat accepts an analysis exactly when at least 3
\* of the 5 checks hold (3 skills, 2 sections, contact info, work
\* experience or education, 200 to 2000 words); every combination of
\* outcomes of the checks is among the analyses it is called with.
C20_ThreeOfFive ==
    /\ \A combination \in SUBSET (1..5) :
          \E analysis \in FormatAnalyses : C20_Checks(analysis) = combination
    /\ \A p \in Procs :
          (call[p].pc = "fn_done" /\ call[p].fn = "validateResumeFormat") =>
              (call[p].valid <=> Cardinality(C20_Checks(call[p].analysis)) >= 3)

\* an analysis accepted on exactly three checks, its word count at the
\* upper edge
C20_Witness ==
    \E p \in Procs :
        /\ call[p].pc = "fn_done" /\ call[p].fn = "validateResumeFormat"
        /\ call[p].valid
        /\ C20_Checks(call[p].analysis) = {1, 4, 5}
        /\ call[p].analysis.wordCount = 2000

\* C21: when the validation gate rejects an analysis, as it does every
\* analysis with exactly 1 skill, no sections and no contact information,
\* getRecommendedJobs returns success = false with the reason and an empty
\* list of recommendations, and has issued no provider call, no cache
\* query and no oracle call and left apiCallCount as it was.
C21_RejectedBeforeAnySearch ==
    [][\A p \in Procs :
          call'[p].kind = "recs" =>
              /\ (/\ Len(call'[p].analysis.infoSkills) = 1
                  /\ call'[p].analysis.sections = 0
                  /\ ~call'[p].analysis.contact) =>
                     call'[p].recommended = "invalid"
              /\ call'[p].recommended = "invalid" =>
                    /\ call'[p].pc = "rt_done" /\ call'[p].status = 400
                    /\ call'[p].recommendations = <<>>
                    /\ ~call'[p].live /\ call'[p].incs = 0
                    /\ call'[p].prov = "none" /\ call'[p].via = "none"
                    /\ ~call'[p].cacheOk /\ ~call'[p].dbOk
                    /\ call'[p].oracleCalls = 0
                    /\ call[p].pc = "idle" =>
                          /\ apiCallCount' = apiCallCount
                          /\ liveRequests' = liveRequests
                          /\ jobs' = jobs]_vars

\* the analysis with one skill, no sections and no contact information,
\* rejected while the provider could still be called
C21_Witness ==
    \E p \in Procs :
        /\ call[p].kind = "recs" /\ call[p].recommended = "invalid"
        /\ call[p].analysis = AnalysisOneSkill
        /\ ~LimitReached(apiCallCount)

\* the last posting of a batch that has this url
LastWith(batch, link) ==
    batch[CHOOSE i \in 1..Len(batch) :
              /\ batch[i].link = link
              /\ \A k \in (i + 1)..Len(batch) : batch[k].link # link]

\* C22: after any interleaving of searches, refreshes and recommendation
\* replaces the cache holds at most one row for a url, and a
\* storeJobsInDatabase that finds a url cached updates the row there
\* (the descriptive fields of the posting sighted last, the same id and
\* posted date) instead of adding a row.
C22_OneRowPerUrl ==
    [][/\ \A u \in URLs :
             jobs'[u] # NoRow => jobs'[u].copies = 1 /\ jobs'[u].url = u
       /\ \A p \in Procs :
             (call[p].pc = "sj_commit" /\ call'[p].pc = "sj_done") =>
                 \A i \in 1..Len(call[p].body.jobs) :
                     LET u == call[p].body.jobs[i].link
                         job == LastWith(call[p].body.jobs, u)
                     IN  /\ jobs'[u] # NoRow
                         /\ jobs'[u].title = job.title
                         /\ jobs'[u].description = job.snippet
                         /\ jobs[u] # NoRow =>
                               /\ jobs'[u].id = jobs[u].id
                               /\ jobs'[u].posted_date = jobs[u].posted_date
                               /\ jobs'[u].source = jobs[u].source]_vars

\* the row of u1 was inserted for the first sighting and carries the title
\* of the second; and a search that found u2 missing has failed on its
\* INSERT because another session committed u2 in between
C22_Witness ==
    /\ jobs["u1"] # NoRow
    /\ jobs["u1"].title = JobA2.title
    /\ jobs["u1"].posted_date = JobA.updated
    /\ jobs["u2"] # NoRow
    /\ \E p \in Procs :
          /\ call[p].pc = "sj_cache" /\ call[p].via = "catch"
          /\ call[p].idx = 2 /\ ~call[p].jobFound
          /\ call[p].tx.inserted = {}

\* C23: storeJobsInDatabase is all-or-nothing: when the insert or update of
\* a posting of the batch fails, the committed cache is as it was before
\* the batch and the error reaches the catch block of searchJobs; the
\* cache changes only when a transaction commits.
C23_BatchIsAllOrNothing ==
    [][\A p \in Procs :
          /\ (/\ call[p].pc \in {"sj_store", "sj_select", "sj_insert",
                                "sj_update", "sj_commit"}
              /\ call'[p].pc # "sj_done"
              /\ \A q \in Procs : ~(call[q].pc = "st_commit"
                                    /\ call'[q].pc = "st_done")
              /\ \A q \in Procs \ {p} : ~(call[q].pc = "sj_commit"
                                         /\ call'[q].pc = "sj_done")) =>
                 jobs' = jobs
          /\ (/\ call[p].pc \in {"sj_select", "sj_insert", "sj_update",
                                "sj_commit"}
              /\ call'[p].pc \notin {"sj_select", "sj_insert", "sj_update",
                                    "sj_commit", "sj_done"}) =>
                 call'[p].pc = "sj_cache" /\ call'[p].via = "catch"]_vars

\* a batch of two postings failed after its first posting was inserted in
\* the transaction: the cache has no row for it
C23_Witness ==
    \E p \in Procs :
        /\ call[p].pc = "sj_cache" /\ call[p].via = "catch"
        /\ call[p].idx = 2
        /\ call[p].tx.inserted = {"u1"}
        /\ jobs["u1"] = NoRow

\* what the caller of POST /jobs/search receives
SearchResponse(c) ==
    [status |-> c.status, totalCount |-> c.result.totalCount,
     jobs |-> {c.result.jobs[i] : i \in 1..Len(c.result.jobs)},
     apiCallsUsed |-> c.usage, apiCallsRemaining |-> API_LIMIT - c.usage]

\* two searches with the same parameters answered from the same cache
\* contents, the first without a live call because the limit was reached,
\* the second after its live call failed
SkippedAndFailed(p, q) ==
    /\ call[p].pc = "rt_done" /\ call[p].kind = "search"
    /\ call[q].pc = "rt_done" /\ call[q].kind = "search"
    /\ call[p].params = call[q].params
    /\ call[p].cacheOk /\ call[q].cacheOk
    /\ call[p].cache = call[q].cache
    /\ call[p].via = "limit" /\ ~call[p].live
    /\ call[q].via = "catch" /\ call[q].prov \in ProviderErrors

\* C24: for the same cache contents and the same search parameters, a
\* search whose live call was skipped at the limit and a search whose live
\* call failed hand the caller the same response: the same postings, the
\* same total count and the same reported call usage.
C24_SkippedLooksLikeFailed ==
    \A p, q \in Procs :
        SkippedAndFailed(p, q) => SearchResponse(call[p]) = SearchResponse(call[q])


(***************************************************************************)
(* Claims about the scoring attempt and the stored analysis.               *)
(***************************************************************************)
AttemptOver(c) == c.pc = "an_returned" /\ c.semCalls = 1

\* C25: a scoring attempt calls the semantic endpoint first; when that call
\* succeeds the rule-based endpoint is not called, and when it fails by a
\* timeout, by being unavailable or by a malformed response the rule-based
\* endpoint is called and the attempt returns what that call gave.
C25_SemanticThenRuleBased ==
    \A p \in Procs :
        AttemptOver(call[p]) =>
            /\ call[p].first = "semantic"
            /\ call[p].semantic = "ok" =>
                    call[p].ruleCalls = 0 /\ call[p].answer.path = "ml"
            /\ call[p].semantic \in {"timeout", "unavailable", "malformed"} =>
                    call[p].ruleCalls = 1 /\ call[p].answer.path # "ml"

\* C26: the status and the analysis of an existing resume row change only
\* in the step in which a successful analysis of that resume is stored, and
\* the new analysis is that result as a whole, with no field of the old one.
C26_OnlyASuccessfulAnalysisIsStored ==
    [][\A r \in Resumes :
        (/\ resumes[r] # NoResume
         /\ \/ resumes'[r].analysis_data # resumes[r].analysis_data
            \/ resumes'[r].status # resumes[r].status)
        => \E p \in Procs :
            /\ call[p].pc = "an_returned"
            /\ call[p].resume = r
            /\ call[p].answer.success
            /\ resumes'[r].status = "processed"
            /\ ~resumes'[r].analysis_data.null
            /\ resumes'[r].analysis_data.result = call[p].answer
            /\ \/ resumes'[r].analysis_data.targetLevel = "none"
               \/ /\ call[p].kind = "analyze"
                  /\ resumes'[r].analysis_data.targetLevel = call[p].level]_vars

KeywordsDone(p) ==
    call[p].pc = "fn_done" /\ call[p].fn = "extractKeywordsFromResume"

Blank(k) == \A i \in 1..Len(k) : k[i] = " "

\* k.trim().toLowerCase()
Normalized(k) ==
    LET at == {i \in 1..Len(k) : k[i] # " "}
    IN  IF at = {} THEN <<>>
        ELSE ToLowerCase(SubSeq(k, CHOOSE i \in at : \A j \in at : i <= j,
                                   CHOOSE i \in at : \A j \in at : j <= i))

\* the place of a keyword's highest-priority category in the query
Priority(k) ==
    IF InCategory(k, SkillCategories.highValue) THEN 1
    ELSE IF InCategory(k, SkillCategories.frameworks) THEN 2
    ELSE IF ToLowerCase(k) \in SkillCategories.languages THEN 3
    ELSE IF InCategory(k, SkillCategories.cloudTools) THEN 4
    ELSE IF InCategory(k, SkillCategories.databases) THEN 5
    ELSE IF InCategory(k, SkillCategories.dataScience) THEN 6
    ELSE IF \/ InCategory(k, SkillCategories.business)
            \/ InCategory(k, SkillCategories.design)
            \/ InCategory(k, SkillCategories.management) THEN 7
    ELSE IF InCategory(k, SkillCategories.softSkills) THEN 8
    ELSE 9

C28_KeywordsNormalized ==
    \A p \in Procs :
        KeywordsDone(p) =>
            LET kw == call[p].keywords
            IN  /\ \A i \in 1..Len(kw) : kw[i] # <<>> /\ kw[i] = Normalized(kw[i])
                /\ \A i, j \in 1..Len(kw) :
                        Normalized(kw[i]) = Normalized(kw[j]) => i = j

SearchEffect(p) ==
    /\ call[p].pc \in {"sj_done", "rt_done"} =>
            /\ call[p].incs = IF call[p].prov \in {"array", "malformed", "undefined"}
                              THEN 1 ELSE 0
            /\ call[p].atLimit => (~call[p].live /\ call[p].incs = 0)
    /\ call[p].pc = "rt_done" /\ call[p].kind = "refresh" =>
            call[p].void /\ call[p].usage = 0

\* C31: a refresh acts on the budget counter and on the cache as a search
\* does, hands nothing to its caller and does not reject when the provider
\* fails (timeout, network error, error status, malformed body).
C31_RefreshIsASearchWithoutResult ==
    \A p \in Procs :
        call[p].kind = "refresh" =>
            /\ SearchEffect(p)
            /\ (call[p].pc = "rt_done"
                /\ call[p].prov \in ProviderErrors \cup {"undefined", "malformed"})
                    => call[p].status = 200


(***************************************************************************)
(* Claims about the cache fallback.                                        *)
(***************************************************************************)
QueryAnswered(p) ==
    call[p].pc = "sj_done" /\ call[p].kind = "query" /\ call[p].cacheOk

\* text contains q, case-insensitively
ContainsText(text, q) == Includes(ToLowerCase(text), ToLowerCase(q))

\* the rows of the table the query of the claim selects
Selected(table, params) ==
    {u \in URLs :
        /\ table[u] # NoRow
        /\ table[u].is_active
        /\ \/ ContainsText(table[u].title, params.keywords)
           \/ ContainsText(table[u].description, params.keywords)
        /\ params.location # <<>> =>
                ContainsText(table[u].location, params.location)}

\* the answer is the selected rows, most recent first, cut to the limit
AnswersWith(res, table, selected) ==
    /\ res.totalCount = Len(res.jobs)
    /\ Len(res.jobs) = Min(Cardinality(selected), CACHE_LIMIT)
    /\ \A i \in 1..Len(res.jobs) :
            /\ res.jobs[i].link \in selected
            /\ res.jobs[i] = RowToJob(table[res.jobs[i].link])
            /\ \A j \in 1..Len(res.jobs) :
                    /\ i < j => res.jobs[i].updated >= res.jobs[j].updated
                    /\ res.jobs[i].link = res.jobs[j].link => i = j
            /\ \A u \in selected :
                    table[u].posted_date > res.jobs[i].updated
                        => \E k \in 1..Len(res.jobs) : res.jobs[k].link = u

\* C32: the cache fallback returns exactly the active postings whose title
\* or description contains the query and whose location contains the given
\* location, case-insensitively, by posting date descending, at most 50,
\* with totalCount the number of postings returned.
C32_CacheFilter ==
    \A p \in Procs :
        QueryAnswered(p) =>
            AnswersWith(call[p].result, call[p].cache,
                        Selected(call[p].cache, call[p].params))


(***************************************************************************)
(* Claims about what a sighting changes.                                   *)
(***************************************************************************)
\* the row with the six descriptive fields of another row
WithDescriptionOf(row, other) ==
    [row EXCEPT !.title = other.title, !.company = other.company,
                !.location = other.location,
                !.description = other.description,
                !.salary = other.salary, !.job_type = other.job_type]

\* C33 as stated: a committed posting is never removed, a step changes of
\* it nothing but title, company, location, description, salary and job
\* type, and a step of storeRecommendations leaves it as it is.
C33_SightingChangesOnlySixFields ==
    [][\A u \in URLs :
          jobs[u] # NoRow =>
              /\ jobs'[u] # NoRow
              /\ WithDescriptionOf(jobs'[u], jobs[u]) = jobs[u]
              /\ (\E p \in Procs : call[p].kind = "store" /\ call'[p] # call[p])
                    => jobs'[u] = jobs[u]]_vars

\* C33 (amended): a committed posting is never removed; a step changes of
\* it nothing but title, company, location, description, salary, job type
\* and the updated_at timestamp (url, posting date, source and active flag
\* stay), and a step of storeRecommendations leaves it as it is.
C33_SightingKeepsIdentity ==
    [][\A u \in URLs :
          jobs[u] # NoRow =>
              /\ jobs'[u] # NoRow
              /\ [WithDescriptionOf(jobs'[u], jobs[u])
                    EXCEPT !.updated_at = jobs[u].updated_at] = jobs[u]
              /\ (\E p \in Procs : call[p].kind = "store" /\ call'[p] # call[p])
                    => jobs'[u] = jobs[u]]_vars

\* the posting of u1 was stored from one sighting and carries the fields of
\* a later one, with the posting date of the first
C33_Witness ==
    /\ jobs["u1"] # NoRow
    /\ jobs["u1"].title = JobA2.title
    /\ jobs["u1"].posted_date = JobA.updated
    /\ jobs["u1"].updated_at = "CURRENT_TIMESTAMP"
    /\ \E k \in RecKeys : recs[k] # NoRow


(***************************************************************************)
(* Claims about termination.                                               *)
(***************************************************************************)
\* C34: if every external call settles, an invocation of getRecommendedJobs
\* leads to its response (success: true, or success: false for a rejected
\* analysis or a caught error), whatever the provider, the cache write, the
\* cache reads and the oracle did.
C34_RecommendationAlwaysReturns ==
    \A p \in Procs :
        (call[p].kind = "recs" /\ call[p].recommended = "none")
            ~> (call[p].recommended \in {"success", "invalid", "error"})

\* a response after the provider failed and both cache reads failed, and
\* one after the provider answered without a list of jobs
C34_Witness ==
    \E p \in Procs :
        /\ call[p].kind = "recs"
        /\ \/ /\ call[p].recommended = "success"
              /\ call[p].prov \in ProviderErrors
              /\ ~call[p].cacheOk /\ ~call[p].dbOk
              /\ call[p].oracle.kind = "error"
           \/ /\ call[p].recommended = "error"
              /\ call[p].prov = "undefined"


(***************************************************************************)
(* Claims about the cache after a search.                                  *)
(***************************************************************************)
\* searchJobs or refreshJobs of p got a list of postings from the provider
\* and storeJobsInDatabase stored it
WarmedUp(p) ==
    /\ call[p].kind \in {"search", "refresh"}
    /\ call[p].pc \in {"sj_done", "rt_done"}
    /\ call[p].prov = "array" /\ call[p].via = "none"

\* the step in which getJobsFromDatabase answers the search of q
ServedFromCache(q) ==
    /\ call[q].kind \in {"search", "refresh"}
    /\ call[q].pc = "sj_cache"
    /\ call'[q].pc = "sj_done" /\ call'[q].cacheOk

SameQuery(p, q) ==
    /\ call[p].params.keywords = call[q].params.keywords
    /\ call[p].params.location = call[q].params.location

Returned(res, u) == \E k \in 1..Len(res.jobs) : res.jobs[k].link = u

\* C35 as stated: once a search or refresh for q has stored the provider's
\* postings, a later search for the same q and location that is served
\* from the cache returns those postings.
C35_WarmUpRoundTrip ==
    [][\A p, q \in Procs :
          (p # q /\ WarmedUp(p) /\ SameQuery(p, q) /\ ServedFromCache(q)) =>
              \A i \in 1..Len(call[p].body.jobs) :
                  Returned(call'[q].result, call[p].body.jobs[i].link)]_vars

\* C35: once a search or refresh for q has stored the provider's postings,
\* a later search for the same q and location that is served from the cache
\* returns those of them whose cached title or description contains q and
\* whose location contains the location asked for.
C35_WarmUpReturnsTheMatching ==
    [][\A p, q \in Procs :
          (p # q /\ WarmedUp(p) /\ SameQuery(p, q) /\ ServedFromCache(q)) =>
              \A i \in 1..Len(call[p].body.jobs) :
                  call[p].body.jobs[i].link \in Selected(jobs, call[q].params)
                      => Returned(call'[q].result,
                                  call[p].body.jobs[i].link)]_vars

\* a search answered from the cache that an earlier search for the same
\* query filled with two postings, one of which it returns
C35_Witness ==
    \E p, q \in Procs :
        /\ p # q /\ WarmedUp(p) /\ SameQuery(p, q)
        /\ Len(call[p].body.jobs) = 2
        /\ call[q].kind = "search" /\ call[q].pc = "sj_done"
        /\ call[q].via \in {"limit", "catch"} /\ call[q].cacheOk
        /\ \A i \in 1..2 : call[q].cache[call[p].body.jobs[i].link] # NoRow
        /\ Len(call[q].result.jobs) = 1
        /\ Returned(call[q].result, call[p].body.jobs[1].link)


(***************************************************************************)
(* Claims about replaces of recommendations that run at once.              *)
(***************************************************************************)
\* both calls committed, for the same key and with different lists
BothCommitted(p, q) ==
    /\ p # q
    /\ call[p].kind = "store" /\ call[p].pc = "st_done"
    /\ call[q].kind = "store" /\ call[q].pc = "st_done"
    /\ SameKey(call[p], call[q])
    /\ call[p].recommendations # call[q].recommendations

\* C36: when two storeRecommendations calls for the same (user, resume)
\* with different lists have both committed, the stored set for the key is
\* the list of one of them in full, never rows of both.
C36_OneListInFull ==
    \A p, q \in Procs :
        BothCommitted(p, q) =>
            \/ StoredSet(recs, call[p].user, call[p].resume) =
                   ListRows(call[p].recommendations)
            \/ StoredSet(recs, call[p].user, call[p].resume) =
                   ListRows(call[q].recommendations)


\* the rows of job_recommendations of the keys other than the key of c
OtherKeys(table, c) ==
    [k \in {k \in RecKeys : ~(k[1] = c.user /\ k[2] = c.resume)} |-> table[k]]

\* C39: storeRecommendations(user, resume, list) leaves the rows of every
\* other (user, resume) key as they were, in each of its steps, the COMMIT
\* and the ROLLBACK among them.
C39_OtherKeysUntouched ==
    [][\A p \in Procs :
          (InTx(call[p]) /\ call'[p] # call[p]) =>
              OtherKeys(recs', call[p]) = OtherKeys(recs, call[p])]_vars

\* a call replaced the rows of its key and committed while the other resume
\* of the user holds rows, and a call that had deleted rows was rolled back
\* while the other resume holds rows
C39_Witness ==
    \E p \in Procs : \E k \in RecKeys :
        /\ call[p].kind = "store"
        /\ call[p].pc \in {"st_done", "st_rejected"}
        /\ call[p].tx.deleted # {}
        /\ k[1] = call[p].user /\ k[2] # call[p].resume
        /\ recs[k] # NoRow


(***************************************************************************)
(* Claims about the latest resume.                                         *)
(***************************************************************************)
\* C37: a user has at most one resume marked is_latest, and when a
\* createResume commits the latest resume of the user is the row that call
\* created, also when two createResume calls interleave.
C37_OneLatestResume ==
    [][/\ Cardinality(LatestResume(resumes')) <= 1
       /\ \A p \in Procs :
             (call[p].pc = "cr_commit" /\ call'[p].pc = "up_created") =>
                 LatestResume(resumes') = {call[p].resume}]_vars


\* the resume was analyzed with an explicit target level
AnalyzedWithLevel(row) ==
    /\ row.status = "processed"
    /\ ~row.analysis_data.null
    /\ row.analysis_data.targetLevel # "none"

\* C38: once a resume has been analyzed with an explicit target level L, a
\* re-analysis the recommendations route starts for it uses L, and the
\* stored target level is still L after the re-analysis.
C38_ReanalysisKeepsTheLevel ==
    [][\A p \in Procs :
          /\ (/\ call[p].pc = "idle"
              /\ call'[p].kind = "reanalyze" /\ call'[p].pc = "an_semantic"
              /\ AnalyzedWithLevel(resumes[call'[p].resume])) =>
                 call'[p].level =
                     resumes[call'[p].resume].analysis_data.targetLevel
          /\ (/\ call[p].kind = "reanalyze"
              /\ call[p].pc = "an_returned" /\ call'[p].pc = "rt_done"
              /\ AnalyzedWithLevel(resumes[call[p].resume])) =>
                 resumes'[call[p].resume].analysis_data.targetLevel =
                     resumes[call[p].resume].analysis_data.targetLevel]_vars

====
